---- MODULE Spec2Model ----
(***************************************************************************)
(* A model of the dual-channel UDP transport: the packet codec             *)
(* (core/packet.py), the sender's ReliableChannel                          *)
(* (reliability/reliable_channel.py), the receiver's ReorderBuffer         *)
(* (reliability/reorder_buffer.py) and the endpoint GameNetAPI with its    *)
(* application thread, receive worker and retransmission timer             *)
(* (core/game_net_api.py).                                                 *)
(*                                                                         *)
(* Wall-clock time is abstracted: a time stamp the code compares against   *)
(* a timeout is kept as "fresh"/"running" (less than the timeout has       *)
(* elapsed since it was taken) or "expired" (at least the timeout has      *)
(* elapsed); the environment's TimePasses actions move the one to the      *)
(* other.  The 4 time stamp bytes of a datagram are kept as zeros (they    *)
(* feed only the latency metric).                                          *)
(***************************************************************************)
EXTENDS Integers, Sequences, FiniteSets, TLC

VARIABLES
    api,      \* [endpoint -> GameNetAPI fields]
    channel,  \* [endpoint -> ReliableChannel fields]
    reorder,  \* [endpoint -> ReorderBuffer fields]
    app,      \* [endpoint -> the application thread inside send()]
    timer,    \* [endpoint -> the retransmission timer thread]
    wire,     \* [endpoint -> datagrams sent by it, in flight to its peer]
    net,      \* the link's behaviour, fixed by Init
    ghost     \* [endpoint -> history of what the endpoint did]

vars == <<api, channel, reorder, app, timer, wire, net, ghost>>

-----------------------------------------------------------------------------
\* Program constants

HEADER_SIZE == 7
CHANNEL_RELIABLE == 0
CHANNEL_UNRELIABLE == 1
MAX_RETRANSMITS == 12
REORDER_BUFFER_SIZE == 500
DUP_ACK_THRESHOLD == 3
SEQ_SPACE == 65536
HALF_SEQ_SPACE == 32768

\* Bounds of the model

Window == 4         \* sequence numbers in play: start .. start + Window - 1
MaxArrivals == 5    \* datagrams the adversarial link hands to a receiver

Endpoints == {"A", "B"}
Peer(e) == IF e = "A" THEN "B" ELSE "A"

\* Values of expected_seq the observation starts from: a fresh endpoint, and
\* one that has delivered SEQ_SPACE - 2 frames in order (so that the window
\* crosses the 65535 -> 0 boundary).
StartSeqs == {0, SEQ_SPACE - 2}

-----------------------------------------------------------------------------
\* Helpers for finite maps and sequences

Range(s) == {s[i] : i \in DOMAIN s}
Count(f, k) == IF k \in DOMAIN f THEN f[k] ELSE 0
Inc(f, k) == IF k \in DOMAIN f THEN [f EXCEPT ![k] = @ + 1] ELSE (k :> 1) @@ f
Without(f, k) == [x \in (DOMAIN f) \ {k} |-> f[x]]
Put(f, k, v) == [x \in (DOMAIN f) \cup {k} |-> IF x = k THEN v ELSE f[x]]
EmptyMap == [x \in {} |-> 0]

RECURSIVE SeqRemove(_, _)
SeqRemove(s, k) ==
    IF s = <<>> THEN <<>>
    ELSE IF Head(s) = k THEN SeqRemove(Tail(s), k)
    ELSE <<Head(s)>> \o SeqRemove(Tail(s), k)

-----------------------------------------------------------------------------
\* Text: a payload is a sequence of one-character strings

DigitChars == <<"0", "1", "2", "3", "4", "5", "6", "7", "8", "9">>
IsDigit(c) == \E d \in DOMAIN DigitChars : DigitChars[d] = c
DigitVal(c) == (CHOOSE d \in DOMAIN DigitChars : DigitChars[d] = c) - 1

RECURSIVE NatStr(_)
NatStr(n) ==
    IF n < 10 THEN <<DigitChars[n + 1]>>
    ELSE NatStr(n \div 10) \o <<DigitChars[(n % 10) + 1]>>

\* f"{seq_no}"
IntStr(n) == IF n < 0 THEN <<"-">> \o NatStr(0 - n) ELSE NatStr(n)

RECURSIVE DigitsVal(_)
DigitsVal(s) ==
    IF s = <<>> THEN 0
    ELSE DigitsVal(SubSeq(s, 1, Len(s) - 1)) * 10 + DigitVal(s[Len(s)])

\* int(text): an optional sign and at least one decimal digit, else ValueError
ParseInt(s) ==
    LET signed == s # <<>> /\ s[1] \in {"-", "+"}
        digits == IF signed THEN Tail(s) ELSE s
    IN  IF digits # <<>> /\ \A i \in DOMAIN digits : IsDigit(digits[i])
        THEN [ok |-> TRUE,
              val |-> IF signed /\ s[1] = "-" THEN 0 - DigitsVal(digits)
                      ELSE DigitsVal(digits)]
        ELSE [ok |-> FALSE, val |-> 0]

AckPrefix == <<"A", "C", "K", ":">>
StartsWith(s, p) == Len(s) >= Len(p) /\ SubSeq(s, 1, Len(p)) = p

\* payload.split(':')[1] of a payload that starts with "ACK:": the text
\* between the first colon and the next one (or the end)
SplitField1(payload) ==
    LET rest == SubSeq(payload, Len(AckPrefix) + 1, Len(payload))
        colons == {i \in DOMAIN rest : rest[i] = ":"}
        stop == IF colons = {} THEN Len(rest) + 1
                ELSE CHOOSE i \in colons : \A j \in colons : i <= j
    IN  SubSeq(rest, 1, stop - 1)

-----------------------------------------------------------------------------
\* core/packet.py

GamePacket(channel_type, seq_no, payload) ==
    [channel_type |-> channel_type, seq_no |-> seq_no, payload |-> payload]

\* The header bytes: channel, seq high, seq low, 4 time stamp bytes
to_bytes(p) ==
    [header |-> <<p.channel_type, (p.seq_no \div 256) % 256, p.seq_no % 256,
                  0, 0, 0, 0>>,
     body |-> p.payload]

is_ack(p) == p.channel_type = CHANNEL_RELIABLE /\ StartsWith(p.payload, AckPrefix)

is_control_packet(p) ==
    p.channel_type = CHANNEL_RELIABLE /\ StartsWith(p.payload, AckPrefix)

create_ack(seq_no) == GamePacket(CHANNEL_RELIABLE, seq_no, AckPrefix \o IntStr(seq_no))

\* A byte of the payload that is no UTF-8
InvalidByte == "\\xff"

\* None for a datagram shorter than the header; decode('utf-8') raises
\* UnicodeDecodeError on a payload that is no UTF-8
from_bytes(data) ==
    IF Len(data.header) < HEADER_SIZE THEN [ok |-> FALSE, raised |-> FALSE]
    ELSE IF \E i \in DOMAIN data.body : data.body[i] = InvalidByte
    THEN [ok |-> FALSE, raised |-> TRUE]
    ELSE [ok |-> TRUE, raised |-> FALSE,
          packet |-> GamePacket(data.header[1],
                                data.header[2] * 256 + data.header[3],
                                data.body)]

-----------------------------------------------------------------------------
\* reliability/reorder_buffer.py
\*
\* A method is an operator from the object's fields to a record of the new
\* fields (rb), the returned list (ready), the sequence numbers handed to the
\* send_dup_ack callback (dup_acks) and the expected_seq values skipped
\* (skipped, for the history only).

ReorderBufferInit(start) ==
    [max_size |-> REORDER_BUFFER_SIZE,
     expected_seq |-> start,
     buffer |-> EmptyMap,            \* seq_no -> packet
     delivered_count |-> start,
     reordered_count |-> 0,
     skipped_count |-> 0,
     gap_start_time |-> "None",      \* "None", "running" or "expired"
     last_acked |-> start - 1,
     dup_ack_count |-> 0]

\* _is_ahead without the wraparound case of the second half
is_ahead_wrong_half(rb, seq_no) ==
    IF rb.expected_seq < HALF_SEQ_SPACE
    THEN seq_no > rb.expected_seq /\ seq_no < rb.expected_seq + HALF_SEQ_SPACE
    ELSE seq_no > rb.expected_seq

is_ahead(rb, seq_no) ==
    IF rb.expected_seq < HALF_SEQ_SPACE
    THEN seq_no > rb.expected_seq /\ seq_no < rb.expected_seq + HALF_SEQ_SPACE
    ELSE seq_no > rb.expected_seq \/ seq_no < rb.expected_seq - HALF_SEQ_SPACE

\* "while self.expected_seq in self.buffer": the loop of the timeout sweep
\* (reordered = FALSE) and of the expected-packet branch (reordered = TRUE)
\* The loop runs once for each of the buffered frames that follow one another
\* from expected_seq on (run of them)
drain_buffer(rb, ready, reordered) ==
    LET at(i) == (rb.expected_seq + i) % SEQ_SPACE
        run == CHOOSE k \in 0 .. Cardinality(DOMAIN rb.buffer) :
                   /\ \A i \in 0 .. k - 1 : at(i) \in DOMAIN rb.buffer
                   /\ at(k) \notin DOMAIN rb.buffer
        drained == {at(i) : i \in 0 .. run - 1}
    IN  [rb |-> [rb EXCEPT !.buffer = [x \in (DOMAIN rb.buffer) \ drained |-> rb.buffer[x]],
                           !.expected_seq = at(run),
                           !.delivered_count = @ + run,
                           !.reordered_count = IF reordered THEN @ + run ELSE @],
         ready |-> ready \o [i \in 1 .. run |-> rb.buffer[at(i - 1)]]]

\* The timeout check at the start of add_packet leaving the gap timer as it is
timeout_sweep_keep_timer(rb) ==
    IF rb.gap_start_time = "expired"
    THEN LET skipped == [rb EXCEPT !.skipped_count = @ + 1,
                                   !.expected_seq = (rb.expected_seq + 1) % SEQ_SPACE]
             drained == drain_buffer(skipped, <<>>, FALSE)
         IN  [rb |-> drained.rb, ready |-> drained.ready,
              skipped |-> <<rb.expected_seq>>]
    ELSE [rb |-> rb, ready |-> <<>>, skipped |-> <<>>]

\* The timeout check at the start of add_packet
timeout_sweep(rb) ==
    IF rb.gap_start_time = "expired"
    THEN LET skipped == [rb EXCEPT !.skipped_count = @ + 1,
                                   !.expected_seq = (rb.expected_seq + 1) % SEQ_SPACE,
                                   !.gap_start_time = "None"]
             drained == drain_buffer(skipped, <<>>, FALSE)
         IN  [rb |-> drained.rb, ready |-> drained.ready,
              skipped |-> <<rb.expected_seq>>]
    ELSE [rb |-> rb, ready |-> <<>>, skipped |-> <<>>]

\* add_packet that hands a late or duplicate packet to the application
add_packet_redeliver(rb, seq_no, packet) ==
    LET sweep == timeout_sweep(rb)
        r == sweep.rb
    IN  IF seq_no = r.expected_seq
        THEN \* the expected packet
             LET d == drain_buffer([r EXCEPT !.expected_seq = (@ + 1) % SEQ_SPACE,
                                             !.delivered_count = @ + 1,
                                             !.gap_start_time = "None",
                                             !.last_acked = seq_no],
                                   Append(sweep.ready, packet), TRUE)
             IN  [rb |-> d.rb, ready |-> d.ready, dup_acks |-> <<>>,
                  skipped |-> sweep.skipped]
        ELSE IF is_ahead(r, seq_no)
        THEN IF Cardinality(DOMAIN r.buffer) < r.max_size /\ seq_no \notin DOMAIN r.buffer
             THEN \* buffer it, start the gap timer, send a duplicate ACK
                  LET dup == r.last_acked >= 0
                  IN  [rb |-> [r EXCEPT !.buffer = Put(r.buffer, seq_no, packet),
                                        !.gap_start_time =
                                            IF @ = "None" THEN "running" ELSE @,
                                        !.dup_ack_count = IF dup THEN @ + 1 ELSE @],
                       ready |-> sweep.ready,
                       dup_acks |-> IF dup THEN <<r.last_acked>> ELSE <<>>,
                       skipped |-> sweep.skipped]
             ELSE \* already buffered, or the buffer is full: dropped
                  [rb |-> r, ready |-> sweep.ready, dup_acks |-> <<>>,
                   skipped |-> sweep.skipped]
        ELSE [rb |-> r, ready |-> Append(sweep.ready, packet), dup_acks |-> <<>>,
              skipped |-> sweep.skipped]

add_packet(rb, seq_no, packet) ==
    LET sweep == timeout_sweep(rb)
        r == sweep.rb
    IN  IF seq_no = r.expected_seq
        THEN \* the expected packet
             LET d == drain_buffer([r EXCEPT !.expected_seq = (@ + 1) % SEQ_SPACE,
                                             !.delivered_count = @ + 1,
                                             !.gap_start_time = "None",
                                             !.last_acked = seq_no],
                                   Append(sweep.ready, packet), TRUE)
             IN  [rb |-> d.rb, ready |-> d.ready, dup_acks |-> <<>>,
                  skipped |-> sweep.skipped]
        ELSE IF is_ahead(r, seq_no)
        THEN IF Cardinality(DOMAIN r.buffer) < r.max_size /\ seq_no \notin DOMAIN r.buffer
             THEN \* buffer it, start the gap timer, send a duplicate ACK
                  LET dup == r.last_acked >= 0
                  IN  [rb |-> [r EXCEPT !.buffer = Put(r.buffer, seq_no, packet),
                                        !.gap_start_time =
                                            IF @ = "None" THEN "running" ELSE @,
                                        !.dup_ack_count = IF dup THEN @ + 1 ELSE @],
                       ready |-> sweep.ready,
                       dup_acks |-> IF dup THEN <<r.last_acked>> ELSE <<>>,
                       skipped |-> sweep.skipped]
             ELSE \* already buffered, or the buffer is full: dropped
                  [rb |-> r, ready |-> sweep.ready, dup_acks |-> <<>>,
                   skipped |-> sweep.skipped]
        ELSE \* behind expected: ignored
             [rb |-> r, ready |-> sweep.ready, dup_acks |-> <<>>,
              skipped |-> sweep.skipped]

\* check_timeout that skips the missing packet without draining the buffer
check_timeout_no_drain(rb) ==
    IF rb.gap_start_time = "expired"
    THEN [rb |-> [rb EXCEPT !.skipped_count = @ + 1,
                            !.expected_seq = (rb.expected_seq + 1) % SEQ_SPACE,
                            !.gap_start_time = "None"],
          ready |-> <<>>, skipped |-> <<rb.expected_seq>>]
    ELSE [rb |-> rb, ready |-> <<>>, skipped |-> <<>>]

check_timeout(rb) ==
    IF rb.gap_start_time = "expired"
    THEN LET skipped == [rb EXCEPT !.skipped_count = @ + 1,
                                   !.expected_seq = (rb.expected_seq + 1) % SEQ_SPACE,
                                   !.gap_start_time = "None"]
             drained == drain_buffer(skipped, <<>>, FALSE)
         IN  [rb |-> drained.rb, ready |-> drained.ready,
              skipped |-> <<rb.expected_seq>>]
    ELSE [rb |-> rb, ready |-> <<>>, skipped |-> <<>>]

-----------------------------------------------------------------------------
\* reliability/reliable_channel.py
\*
\* pending_packets is the dictionary's keys in insertion order; packet is
\* the PendingPacket object of each sequence number ever tracked (the timer
\* thread keeps references to objects that have left the dictionary).

PendingPacket(packet_data, seq_no) ==
    [packet_data |-> packet_data, seq_no |-> seq_no,
     send_time |-> "fresh",         \* "fresh" or "expired"
     retry_count |-> 0, acked |-> FALSE]

ReliableChannelInit(sent) ==
    [pending_packets |-> <<>>,
     packet |-> EmptyMap,
     dup_ack_count |-> EmptyMap,
     running |-> TRUE,
     stats |-> [sent |-> sent, acked |-> sent, retransmitted |-> 0, failed |-> 0,
                total_retries |-> 0, fast_retransmits |-> 0]]

InPending(c, seq_no) == seq_no \in Range(c.pending_packets)

track_packet(c, packet_data, seq_no) ==
    [c EXCEPT !.pending_packets = IF InPending(c, seq_no) THEN @ ELSE Append(@, seq_no),
              !.packet = Put(@, seq_no, PendingPacket(packet_data, seq_no)),
              !.stats.sent = @ + 1]

\* acknowledge that counts every ACK, also one for a packet no longer pending
acknowledge_count_all(c, seq_no) ==
    IF InPending(c, seq_no) /\ ~c.packet[seq_no].acked
    THEN [c EXCEPT !.packet[seq_no].acked = TRUE,
                   !.stats.acked = @ + 1,
                   !.pending_packets = SeqRemove(@, seq_no),
                   !.dup_ack_count = Without(@, seq_no)]
    ELSE [c EXCEPT !.stats.acked = @ + 1]

acknowledge(c, seq_no) ==
    IF InPending(c, seq_no) /\ ~c.packet[seq_no].acked
    THEN [c EXCEPT !.packet[seq_no].acked = TRUE,
                   !.stats.acked = @ + 1,
                   !.pending_packets = SeqRemove(@, seq_no),
                   !.dup_ack_count = Without(@, seq_no)]
    ELSE c

\* handle_duplicate_ack that keeps the duplicate-ACK count after a fast
\* retransmit
handle_duplicate_ack_no_reset(c, ack_seq_no) ==
    LET dup_count == Count(c.dup_ack_count, ack_seq_no) + 1
        c1 == [c EXCEPT !.dup_ack_count = Put(@, ack_seq_no, dup_count)]
        missing_seq == (ack_seq_no + 1) % SEQ_SPACE
    IN  IF /\ dup_count >= DUP_ACK_THRESHOLD
           /\ InPending(c1, missing_seq)
           /\ ~c1.packet[missing_seq].acked
           /\ c1.packet[missing_seq].retry_count < MAX_RETRANSMITS
        THEN [channel |-> [c1 EXCEPT !.packet[missing_seq].retry_count = @ + 1,
                                     !.packet[missing_seq].send_time = "fresh",
                                     !.stats.fast_retransmits = @ + 1,
                                     !.stats.retransmitted = @ + 1,
                                     !.stats.total_retries = @ + 1],
              out |-> <<c1.packet[missing_seq].packet_data>>]
        ELSE [channel |-> c1, out |-> <<>>]

\* Returns the channel and the datagrams put on the socket (out)
handle_duplicate_ack(c, ack_seq_no) ==
    LET dup_count == Count(c.dup_ack_count, ack_seq_no) + 1
        c1 == [c EXCEPT !.dup_ack_count = Put(@, ack_seq_no, dup_count)]
        missing_seq == (ack_seq_no + 1) % SEQ_SPACE
    IN  IF /\ dup_count >= DUP_ACK_THRESHOLD
           /\ InPending(c1, missing_seq)
           /\ ~c1.packet[missing_seq].acked
           /\ c1.packet[missing_seq].retry_count < MAX_RETRANSMITS
        THEN \* fast retransmit
             [channel |-> [c1 EXCEPT !.packet[missing_seq].retry_count = @ + 1,
                                     !.packet[missing_seq].send_time = "fresh",
                                     !.stats.fast_retransmits = @ + 1,
                                     !.stats.retransmitted = @ + 1,
                                     !.stats.total_retries = @ + 1,
                                     !.dup_ack_count[ack_seq_no] = 0],
              out |-> <<c1.packet[missing_seq].packet_data>>]
        ELSE [channel |-> c1, out |-> <<>>]

\* One pass of the timer's "with self.lock" block over the pending packets,
\* in dictionary order: retry collects the packets to retransmit, failed the
\* sequence numbers given up (for the history only)
RECURSIVE timer_scan(_, _, _, _)
timer_scan(c, keys, retry, failed) ==
    IF keys = <<>> THEN [channel |-> c, retry |-> retry, failed |-> failed]
    ELSE LET seq_no == Head(keys)
             packet == c.packet[seq_no]
         IN  IF packet.acked \/ packet.send_time # "expired"
             THEN timer_scan(c, Tail(keys), retry, failed)
             ELSE IF packet.retry_count < MAX_RETRANSMITS
             THEN timer_scan(c, Tail(keys), Append(retry, seq_no), failed)
             ELSE timer_scan([c EXCEPT !.stats.failed = @ + 1,
                                       !.pending_packets = SeqRemove(@, seq_no)],
                             Tail(keys), retry, Append(failed, seq_no))

\* _retransmit_packet on the object of seq_no (no lock is held)
retransmit_packet(c, seq_no) ==
    [channel |-> [c EXCEPT !.packet[seq_no].retry_count = @ + 1,
                           !.packet[seq_no].send_time = "fresh",
                           !.stats.retransmitted = @ + 1,
                           !.stats.total_retries = @ + 1],
     out |-> <<c.packet[seq_no].packet_data>>]

-----------------------------------------------------------------------------
\* core/game_net_api.py

\* The endpoint after sent reliable frames were sent and acknowledged in order
\* and received ones were received in order and read by the application
\* (a fresh endpoint: sent = received = 0)
GameNetAPIInit(sent, received) ==
    [reliable_seq |-> sent,
     unreliable_seq |-> 0,
     last_acked_seq |-> sent - 1,
     metrics |-> [reliable_sent |-> sent, unreliable_sent |-> 0,
                  reliable_received |-> received, unreliable_received |-> 0,
                  acks_sent |-> received, acks_received |-> sent],
     receive_buffer |-> <<>>,
     running |-> TRUE,
     receiver_thread |-> "alive",    \* "alive" or "exited"
     socket |-> "open"]              \* "open" or "closed"

\* _send_dup_ack: the datagram the callback puts on the socket
send_dup_ack(last_in_order_seq) == to_bytes(create_ack(last_in_order_seq))

RECURSIVE MapDupAcks(_)
MapDupAcks(seqs) ==
    IF seqs = <<>> THEN <<>>
    ELSE <<send_dup_ack(Head(seqs))>> \o MapDupAcks(Tail(seqs))

\* The result of one pass of the worker's loop: the three objects, the
\* datagrams put on the socket in order (out), and for the history the
\* frames appended to the delivery queue, the sequence numbers skipped and
\* the numbers of the ACKs acted on.
Result(a, c, r, out, delivered, skipped, acked) ==
    [api |-> a, channel |-> c, reorder |-> r, out |-> out,
     delivered |-> delivered, skipped |-> skipped, acked |-> acked]

\* The ACK branch handing the ACK frame on to the application as well
receive_ack_delivered(a, c, r, packet) ==
    LET parsed == ParseInt(SplitField1(packet.payload))
        acked_seq == parsed.val
    IN  IF ~parsed.ok THEN Result(a, c, r, <<>>, <<>>, <<>>, <<>>)
        ELSE IF acked_seq = a.last_acked_seq
        THEN LET h == handle_duplicate_ack(c, acked_seq)
             IN  Result([a EXCEPT !.metrics.acks_received = @ + 1,
                                  !.receive_buffer = Append(@, packet)],
                        h.channel, r, h.out, <<packet>>, <<>>, <<acked_seq>>)
        ELSE Result([a EXCEPT !.last_acked_seq = acked_seq,
                              !.metrics.acks_received = @ + 1,
                              !.receive_buffer = Append(@, packet)],
                    acknowledge(c, acked_seq), r, <<>>, <<packet>>, <<>>, <<acked_seq>>)

\* The ACK branch of _receive_loop
receive_ack(a, c, r, packet) ==
    LET parsed == ParseInt(SplitField1(packet.payload))
        acked_seq == parsed.val
    IN  IF ~parsed.ok THEN Result(a, c, r, <<>>, <<>>, <<>>, <<>>)
        ELSE IF acked_seq = a.last_acked_seq
        THEN LET h == handle_duplicate_ack(c, acked_seq)
             IN  Result([a EXCEPT !.metrics.acks_received = @ + 1],
                        h.channel, r, h.out, <<>>, <<>>, <<acked_seq>>)
        ELSE Result([a EXCEPT !.last_acked_seq = acked_seq,
                              !.metrics.acks_received = @ + 1],
                    acknowledge(c, acked_seq), r, <<>>, <<>>, <<>>, <<acked_seq>>)

\* The reliable data branch acknowledging only what it delivers or buffers
receive_reliable_ack_new(a, c, r, packet) ==
    LET ack == to_bytes(create_ack(packet.seq_no))
        added == add_packet(r, packet.seq_no, packet)
        new == added.rb # r
    IN  Result([a EXCEPT !.metrics.acks_sent = IF new THEN @ + 1 ELSE @,
                         !.receive_buffer = @ \o added.ready,
                         !.metrics.reliable_received = @ + Len(added.ready)],
               c, added.rb,
               (IF new THEN <<ack>> ELSE <<>>) \o MapDupAcks(added.dup_acks),
               added.ready, added.skipped, <<>>)

\* The reliable data branch acknowledging cumulatively: only a frame that is
\* delivered on arrival
receive_reliable_ack_in_order(a, c, r, packet) ==
    LET ack == to_bytes(create_ack(packet.seq_no))
        added == add_packet(r, packet.seq_no, packet)
        in_order == packet.seq_no = timeout_sweep(r).rb.expected_seq
    IN  Result([a EXCEPT !.metrics.acks_sent = IF in_order THEN @ + 1 ELSE @,
                         !.receive_buffer = @ \o added.ready,
                         !.metrics.reliable_received = @ + Len(added.ready)],
               c, added.rb,
               (IF in_order THEN <<ack>> ELSE <<>>) \o MapDupAcks(added.dup_acks),
               added.ready, added.skipped, <<>>)

\* The reliable data branch of _receive_loop.  The ACK is put on the socket
\* (line 140) before add_packet runs and before anything is appended.
\* The reliable data branch sending its ACK after add_packet has run
receive_reliable_ack_last(a, c, r, packet) ==
    LET ack == to_bytes(create_ack(packet.seq_no))
        added == add_packet(r, packet.seq_no, packet)
    IN  Result([a EXCEPT !.metrics.acks_sent = @ + 1,
                         !.receive_buffer = @ \o added.ready,
                         !.metrics.reliable_received = @ + Len(added.ready)],
               c, added.rb, MapDupAcks(added.dup_acks) \o <<ack>>,
               added.ready, added.skipped, <<>>)

receive_reliable(a, c, r, packet) ==
    LET ack == to_bytes(create_ack(packet.seq_no))
        added == add_packet(r, packet.seq_no, packet)
    IN  Result([a EXCEPT !.metrics.acks_sent = @ + 1,
                         !.receive_buffer = @ \o added.ready,
                         !.metrics.reliable_received = @ + Len(added.ready)],
               c, added.rb, <<ack>> \o MapDupAcks(added.dup_acks),
               added.ready, added.skipped, <<>>)

\* The unreliable branch passing its packet through the reorder buffer
receive_unreliable_reordering(a, c, r, packet) ==
    LET added == add_packet(r, packet.seq_no, packet)
    IN  Result([a EXCEPT !.receive_buffer = Append(@, packet),
                         !.metrics.unreliable_received = @ + 1],
               c, added.rb, <<>>, <<packet>>, <<>>, <<>>)

\* The unreliable branch dropping a frame that is already in the delivery queue
receive_unreliable_once(a, c, r, packet) ==
    IF \E i \in DOMAIN a.receive_buffer : a.receive_buffer[i] = packet
    THEN Result(a, c, r, <<>>, <<>>, <<>>, <<>>)
    ELSE Result([a EXCEPT !.receive_buffer = Append(@, packet),
                          !.metrics.unreliable_received = @ + 1],
                c, r, <<>>, <<packet>>, <<>>, <<>>)

\* The unreliable branch of _receive_loop
receive_unreliable(a, c, r, packet) ==
    Result([a EXCEPT !.receive_buffer = Append(@, packet),
                     !.metrics.unreliable_received = @ + 1],
           c, r, <<>>, <<packet>>, <<>>, <<>>)

\* One pass of _receive_loop without the handler of lines 175-177: an
\* exception of from_bytes ends the worker thread
receive_datagram_unhandled(a, c, r, data) ==
    LET decoded == from_bytes(data)
    IN  IF decoded.raised
        THEN Result([a EXCEPT !.receiver_thread = "exited"], c, r, <<>>, <<>>, <<>>, <<>>)
        ELSE IF ~decoded.ok THEN Result(a, c, r, <<>>, <<>>, <<>>, <<>>)
        ELSE IF is_ack(decoded.packet) THEN receive_ack(a, c, r, decoded.packet)
        ELSE IF /\ decoded.packet.channel_type = CHANNEL_RELIABLE
                /\ ~is_control_packet(decoded.packet)
        THEN receive_reliable(a, c, r, decoded.packet)
        ELSE IF decoded.packet.channel_type = CHANNEL_UNRELIABLE
        THEN receive_unreliable(a, c, r, decoded.packet)
        ELSE Result(a, c, r, <<>>, <<>>, <<>>, <<>>)

\* One pass of _receive_loop that got a datagram from recvfrom.  An exception
\* of from_bytes is caught by the loop's last handler (lines 175-177), a
\* None is skipped by "if packet:"; the loop goes on in both cases.
receive_datagram(a, c, r, data) ==
    LET decoded == from_bytes(data)
    IN  IF decoded.raised THEN Result(a, c, r, <<>>, <<>>, <<>>, <<>>)
        ELSE IF ~decoded.ok THEN Result(a, c, r, <<>>, <<>>, <<>>, <<>>)
        ELSE IF is_ack(decoded.packet) THEN receive_ack(a, c, r, decoded.packet)
        ELSE IF /\ decoded.packet.channel_type = CHANNEL_RELIABLE
                /\ ~is_control_packet(decoded.packet)
        THEN receive_reliable(a, c, r, decoded.packet)
        ELSE IF decoded.packet.channel_type = CHANNEL_UNRELIABLE
        THEN receive_unreliable(a, c, r, decoded.packet)
        ELSE Result(a, c, r, <<>>, <<>>, <<>>, <<>>)

\* One pass of _receive_loop whose recvfrom timed out
receive_timeout(a, c, r) ==
    LET checked == check_timeout(r)
    IN  Result([a EXCEPT !.receive_buffer = @ \o checked.ready,
                         !.metrics.reliable_received = @ + Len(checked.ready)],
               c, checked.rb, <<>>, checked.ready, checked.skipped, <<>>)

\* receive() handing out the head of the delivery queue and leaving it there
receive_peek(a) ==
    IF a.receive_buffer # <<>>
    THEN [api |-> a, value |-> <<Head(a.receive_buffer)>>]
    ELSE [api |-> a, value |-> <<>>]

\* GameNetAPI.receive, its body under buffer_lock.  value: <<frame>>, or <<>>
\* for None
receive(a) ==
    IF a.receive_buffer # <<>>
    THEN [api |-> [a EXCEPT !.receive_buffer = Tail(@)],
          value |-> <<Head(a.receive_buffer)>>]
    ELSE [api |-> a, value |-> <<>>]

-----------------------------------------------------------------------------
\* The state of the system

Text_p == <<"p">>
Text_u == <<"u">>
Text_ack0 == AckPrefix \o <<"0">>
Text_ackx == AckPrefix \o <<"x">>

\* Datagrams the decoding fails on: shorter than the header, a payload that
\* is no UTF-8 (on either channel, also behind "ACK:"), an ACK without a number
Malformed ==
    [short |-> {[header |-> <<>>, body |-> <<>>],
                [header |-> <<CHANNEL_RELIABLE, 0, 1, 0, 0, 0>>, body |-> <<>>]},
     utf8 |-> {[header |-> to_bytes(GamePacket(ch, 1, <<>>)).header, body |-> b] :
                  ch \in {CHANNEL_RELIABLE, CHANNEL_UNRELIABLE},
                  b \in {<<InvalidByte>>, AckPrefix \o <<"0", InvalidByte>>}},
     ack |-> {to_bytes(GamePacket(CHANNEL_RELIABLE, 1, Text_ackx)),
              to_bytes(GamePacket(CHANNEL_RELIABLE, 1, AckPrefix))}]

\* The sequence numbers in play, from the start value on
WindowSeqs(start) == {(start + i) % SEQ_SPACE : i \in 0 .. Window - 1}

AppInit(script) ==
    [pc |-> "idle",          \* "idle"; in send(): "sendto" (before line 75), "track"
                             \* (before line 78); in close(): "shutdown" (before line
                             \* 228), "join_timer" (195), "join_receiver" (229),
                             \* "close_socket" (231)
     script |-> script,      \* the send() calls still to make: <<payload, reliable>>
     seq_no |-> 0, reliable |-> FALSE, packet_bytes |-> <<>>,
     raised |-> FALSE,       \* a call ended with an exception
     closes |-> 0,           \* close() calls that have returned
     loaded |-> 0,           \* the counter value line 66 or 67 has read
     second |-> "none"]      \* a second application thread: such a record, or "none"

\* pc: "scan" (at the top of the loop), "retry" (retransmitting), "exited";
\* loaded: the value a step of _retransmit_packet has read
TimerInit == [pc |-> "scan", packets_to_retry |-> <<>>, loaded |-> 0]

GhostInit ==
    [rlog |-> <<>>,          \* <<"deliver", seq>> (reliable) and <<"skip", seq>> in order
     dlog |-> <<>>,          \* every frame appended to the delivery queue, in order
     sends |-> <<>>,         \* every frame send() put on the socket, in order
     dropped |-> {},         \* sequence numbers the link dropped a datagram of
     arrivals |-> EmptyMap,  \* seq -> arrivals of the reliable data frame seq
     n_arrivals |-> 0,       \* datagrams handed over by the adversarial link
     ack_tx |-> EmptyMap,    \* seq -> ACK datagrams for seq put on the socket
     tx |-> EmptyMap,        \* seq -> transmissions of the reliable data frame seq
     acked |-> {},           \* numbers of the inbound ACKs acted on
     failed |-> {},          \* sequence numbers the timer gave up
     send_failed |-> {},     \* reliable sequence numbers whose sendto raised in send()
     closed |-> <<>>,        \* the endpoint's objects when its first close() returned
     bad |-> EmptyMap,       \* kind of Malformed -> arrivals of such a datagram
     full |-> {},            \* sequence numbers of frames dropped by a full reorder buffer
     slog |-> <<>>,          \* <<"sendto", thread, seq>> and <<"track", thread, seq>> of
                             \* reliable send() calls made by several threads, in order
     returned |-> <<>>,      \* what the receive() calls returned, in order: <<frame>>
                             \* or <<>> (None)
     last_out |-> <<>>]      \* the datagrams the worker put on the socket in its pass on
                             \* the last datagram of the adversarial link, in order

\* sent[e]: reliable frames e has sent before; its peer has received them all
InitWith(sent, scripts, link) ==
    /\ api = [e \in Endpoints |-> GameNetAPIInit(sent[e], sent[Peer(e)])]
    /\ channel = [e \in Endpoints |-> ReliableChannelInit(sent[e])]
    /\ reorder = [e \in Endpoints |-> ReorderBufferInit(sent[Peer(e)])]
    /\ app = [e \in Endpoints |-> AppInit(scripts[e])]
    /\ timer = [e \in Endpoints |-> TimerInit]
    /\ wire = [e \in Endpoints |-> <<>>]
    /\ net = link
    /\ ghost = [e \in Endpoints |-> GhostInit]

\* The history of the datagrams put on the socket
RECURSIVE GhostSent(_, _)
GhostSent(g, out) ==
    IF out = <<>> THEN g
    ELSE LET p == from_bytes(Head(out)).packet
         IN  GhostSent(IF is_ack(p) THEN [g EXCEPT !.ack_tx = Inc(@, p.seq_no)]
                       ELSE IF p.channel_type = CHANNEL_RELIABLE
                       THEN [g EXCEPT !.tx = Inc(@, p.seq_no)]
                       ELSE g,
                       Tail(out))

IsReliable(p) == p.channel_type = CHANNEL_RELIABLE

LogEvents(kind, items) == [i \in DOMAIN items |-> <<kind, items[i]>>]

SeqNos(packets) == [i \in DOMAIN packets |-> packets[i].seq_no]

\* The history after a pass of the worker's loop.  A skip precedes the
\* deliveries of the same pass (the timeout sweep runs first).
GhostWorker(g, res) ==
    [GhostSent(g, res.out) EXCEPT
        !.rlog = @ \o LogEvents("skip", res.skipped)
                   \o LogEvents("deliver", SeqNos(SelectSeq(res.delivered, IsReliable))),
        !.dlog = @ \o res.delivered,
        !.acked = @ \cup Range(res.acked)]

GhostArrival(g, data) ==
    LET d == from_bytes(data)
    IN  [g EXCEPT !.n_arrivals = @ + 1,
                  !.arrivals = IF d.ok /\ d.packet.channel_type = CHANNEL_RELIABLE
                                  /\ ~is_ack(d.packet)
                               THEN Inc(@, d.packet.seq_no) ELSE @,
                  !.bad = IF \E k \in DOMAIN Malformed : data \in Malformed[k]
                          THEN Inc(@, CHOOSE k \in DOMAIN Malformed : data \in Malformed[k])
                          ELSE @]

\* The worker is handed a reliable data frame that add_packet drops at its
\* "Buffer full" branch
GhostFull(g, r, data) ==
    LET d == from_bytes(data)
        rb == timeout_sweep(r).rb
    IN  IF /\ d.ok
           /\ d.packet.channel_type = CHANNEL_RELIABLE
           /\ ~is_control_packet(d.packet)
           /\ d.packet.seq_no # rb.expected_seq
           /\ is_ahead(rb, d.packet.seq_no)
           /\ Cardinality(DOMAIN rb.buffer) >= rb.max_size
        THEN [g EXCEPT !.full = @ \cup {d.packet.seq_no}]
        ELSE g

\* sendto: on a "fifo" link the datagrams queue up for the peer; the
\* "adversarial" link keeps nothing (what it hands over is its own choice)
Sendto(e, out) == IF net.mode = "fifo" THEN wire[e] \o out ELSE wire[e]

\* The worker passes of the endpoints in DOMAIN res take effect
CommitWorker(res) ==
    /\ api' = [e \in Endpoints |-> IF e \in DOMAIN res THEN res[e].api ELSE api[e]]
    /\ channel' = [e \in Endpoints |->
                      IF e \in DOMAIN res THEN res[e].channel ELSE channel[e]]
    /\ reorder' = [e \in Endpoints |->
                      IF e \in DOMAIN res THEN res[e].reorder ELSE reorder[e]]

-----------------------------------------------------------------------------
\* The receive worker (GameNetAPI._receive_loop) and the link

\* The adversarial link hands datagram data to endpoint e's worker
Arrive(e, data) ==
    /\ net.mode = "adversarial"
    /\ api[e].receiver_thread = "alive"
    /\ ghost[e].n_arrivals < MaxArrivals
    /\ LET res == receive_datagram(api[e], channel[e], reorder[e], data)
       IN  /\ CommitWorker(e :> res)
           /\ ghost' = [ghost EXCEPT ![e] =
                           [GhostWorker(GhostArrival(@, data), res) EXCEPT
                               !.last_out = res.out]]
           /\ wire' = [wire EXCEPT ![e] = Sendto(e, res.out)]
    /\ UNCHANGED <<app, timer, net>>

\* recvfrom times out after 100 ms without a datagram
SocketTimeout(e) ==
    /\ net.mode = "fifo" => wire[Peer(e)] = <<>>
    /\ api[e].receiver_thread = "alive"
    /\ LET res == receive_timeout(api[e], channel[e], reorder[e])
       IN  /\ CommitWorker(e :> res)
           /\ ghost' = [ghost EXCEPT ![e] = GhostWorker(@, res)]
    /\ UNCHANGED <<app, timer, wire, net>>

\* On the "fifo" link no timeout elapses while a datagram is in flight or an
\* application is still making its send() calls
LinkQuiet ==
    net.mode = "fifo" =>
        \A x \in Endpoints :
            wire[x] = <<>> /\ app[x].pc = "idle" /\ app[x].script = <<>>

\* REORDER_TIMEOUT elapses since gap_start_time
GapTimePasses(e) ==
    /\ reorder[e].gap_start_time = "running"
    /\ LinkQuiet
    /\ reorder' = [reorder EXCEPT ![e].gap_start_time = "expired"]
    /\ UNCHANGED <<api, channel, app, timer, wire, net, ghost>>

-----------------------------------------------------------------------------
\* A receiver under an adversarial link: reliable data frames of the window
\* and unreliable datagrams arrive at B in any order, any number of times

LinkAdversarial(start) ==
    [mode |-> "adversarial", start |-> start, send_errors |-> FALSE, drop_first |-> {},
     scenario |-> "receiver"]

NoScripts == [e \in Endpoints |-> <<>>]

ReliableData(seq_no) == to_bytes(GamePacket(CHANNEL_RELIABLE, seq_no, Text_p))
UnreliableData == to_bytes(GamePacket(CHANNEL_UNRELIABLE, 0, Text_u))

RecvInit ==
    \E s \in StartSeqs :
        InitWith([e \in Endpoints |-> IF e = "A" THEN s ELSE 0], NoScripts,
                 LinkAdversarial(s))

ArriveReliable == \E n \in WindowSeqs(net.start) : Arrive("B", ReliableData(n))
ArriveUnreliable == Arrive("B", UnreliableData)
RecvTimeout == SocketTimeout("B")
RecvTimePasses == GapTimePasses("B")

RecvNext ==
    \/ ArriveReliable
    \/ ArriveUnreliable
    \/ RecvTimeout
    \/ RecvTimePasses

SpecRecv == RecvInit /\ [][RecvNext]_vars

\* The worker's loop keeps running and time keeps passing
FairRecv == SpecRecv /\ WF_vars(RecvTimeout) /\ WF_vars(RecvTimePasses)

-----------------------------------------------------------------------------
\* Two receivers fed the same reliable arrivals, timeouts and elapsed time;
\* B gets unreliable datagrams in between as well

MaxUnreliable == 2

NIInit ==
    \E s \in StartSeqs :
        InitWith([e \in Endpoints |-> s], NoScripts, LinkAdversarial(s))

BothArriveReliable ==
    \E n \in WindowSeqs(net.start) :
        /\ ghost["A"].n_arrivals < MaxArrivals
        /\ LET res == [e \in Endpoints |->
                          receive_datagram(api[e], channel[e], reorder[e],
                                           ReliableData(n))]
           IN  /\ CommitWorker(res)
               /\ ghost' = [e \in Endpoints |->
                               GhostWorker(GhostArrival(ghost[e], ReliableData(n)),
                                           res[e])]
        /\ UNCHANGED <<app, timer, wire, net>>

BothTimeout ==
    /\ LET res == [e \in Endpoints |-> receive_timeout(api[e], channel[e], reorder[e])]
       IN  /\ CommitWorker(res)
           /\ ghost' = [e \in Endpoints |-> GhostWorker(ghost[e], res[e])]
    /\ UNCHANGED <<app, timer, wire, net>>

BothTimePasses ==
    /\ \E e \in Endpoints : reorder[e].gap_start_time = "running"
    /\ reorder' = [e \in Endpoints |->
                      IF reorder[e].gap_start_time = "running"
                      THEN [reorder[e] EXCEPT !.gap_start_time = "expired"]
                      ELSE reorder[e]]
    /\ UNCHANGED <<api, channel, app, timer, wire, net, ghost>>

ExtraUnreliable ==
    /\ ghost["B"].n_arrivals - ghost["A"].n_arrivals < MaxUnreliable
    /\ LET res == receive_datagram(api["B"], channel["B"], reorder["B"], UnreliableData)
       IN  /\ CommitWorker("B" :> res)
           /\ ghost' = [ghost EXCEPT !["B"] = GhostWorker(GhostArrival(@, UnreliableData), res)]
    /\ UNCHANGED <<app, timer, wire, net>>

NINext ==
    \/ BothArriveReliable
    \/ BothTimeout
    \/ BothTimePasses
    \/ ExtraUnreliable

SpecNI == NIInit /\ [][NINext]_vars

-----------------------------------------------------------------------------
\* The application thread inside GameNetAPI.send, and the timer thread

\* send(), up to the sendto call: the sequence number is taken and counted
\* on, the packet is encoded
send_begin(a, t, data, reliable) ==
    LET seq_no == IF reliable THEN a.reliable_seq ELSE a.unreliable_seq
        channel_type == IF reliable THEN CHANNEL_RELIABLE ELSE CHANNEL_UNRELIABLE
    IN  [api |-> IF reliable
                 THEN [a EXCEPT !.reliable_seq = (@ + 1) % SEQ_SPACE]
                 ELSE [a EXCEPT !.unreliable_seq = (@ + 1) % SEQ_SPACE],
         app |-> [t EXCEPT !.pc = "sendto", !.seq_no = seq_no, !.reliable = reliable,
                           !.packet_bytes = to_bytes(GamePacket(channel_type, seq_no, data)),
                           !.script = Tail(@)]]

\* send(), after the sendto call returned
send_track(a, c, t) ==
    [api |-> IF t.reliable THEN [a EXCEPT !.metrics.reliable_sent = @ + 1]
             ELSE [a EXCEPT !.metrics.unreliable_sent = @ + 1],
     channel |-> IF t.reliable THEN track_packet(c, t.packet_bytes, t.seq_no) ELSE c,
     app |-> [t EXCEPT !.pc = "idle"]]

SendBegin(e) ==
    /\ app[e].pc = "idle"
    /\ app[e].script # <<>>
    /\ LET call == Head(app[e].script)
           res == send_begin(api[e], app[e], call.payload, call.reliable)
       IN  /\ api' = [api EXCEPT ![e] = res.api]
           /\ app' = [app EXCEPT ![e] = res.app]
    /\ UNCHANGED <<channel, reorder, timer, wire, net, ghost>>

\* self.socket.sendto(packet_bytes, ...) returns
SendTo(e) ==
    /\ app[e].pc = "sendto"
    /\ wire' = [wire EXCEPT ![e] = Sendto(e, <<app[e].packet_bytes>>)]
    /\ ghost' = [ghost EXCEPT ![e] =
                    [GhostSent(@, <<app[e].packet_bytes>>) EXCEPT
                        !.sends = Append(@, from_bytes(app[e].packet_bytes).packet)]]
    /\ app' = [app EXCEPT ![e].pc = "track"]
    /\ UNCHANGED <<api, channel, reorder, timer, net>>

\* self.socket.sendto(packet_bytes, ...) raises: send() has no handler, the
\* exception leaves send() before track_packet
SendRaise(e) ==
    /\ app[e].pc = "sendto"
    /\ net.send_errors
    /\ app' = [app EXCEPT ![e].pc = "idle", ![e].raised = TRUE]
    /\ ghost' = [ghost EXCEPT ![e].send_failed =
                    IF app[e].reliable THEN @ \cup {app[e].seq_no} ELSE @]
    /\ UNCHANGED <<api, channel, reorder, timer, wire, net>>

SendTrack(e) ==
    /\ app[e].pc = "track"
    /\ LET res == send_track(api[e], channel[e], app[e])
       IN  /\ api' = [api EXCEPT ![e] = res.api]
           /\ channel' = [channel EXCEPT ![e] = res.channel]
           /\ app' = [app EXCEPT ![e] = res.app]
    /\ UNCHANGED <<reorder, timer, wire, net, ghost>>

\* The timer's pass over the pending packets under the lock
TimerScan(e) ==
    /\ timer[e].pc = "scan"
    /\ channel[e].running
    /\ LET res == timer_scan(channel[e], channel[e].pending_packets, <<>>, <<>>)
       IN  /\ channel' = [channel EXCEPT ![e] = res.channel]
           /\ timer' = [timer EXCEPT
                           ![e].pc = IF res.retry = <<>> THEN "scan" ELSE "retry",
                           ![e].packets_to_retry = res.retry]
           /\ ghost' = [ghost EXCEPT ![e].failed = @ \cup Range(res.failed)]
    /\ UNCHANGED <<api, reorder, app, wire, net>>

\* The timer retransmits the next packet of its list, the lock released
TimerRetransmit(e) ==
    /\ timer[e].pc = "retry"
    /\ LET res == retransmit_packet(channel[e], Head(timer[e].packets_to_retry))
           rest == Tail(timer[e].packets_to_retry)
       IN  /\ channel' = [channel EXCEPT ![e] = res.channel]
           /\ wire' = [wire EXCEPT ![e] = Sendto(e, res.out)]
           /\ ghost' = [ghost EXCEPT ![e] = GhostSent(@, res.out)]
           /\ timer' = [timer EXCEPT
                           ![e].pc = IF rest = <<>> THEN "scan" ELSE "retry",
                           ![e].packets_to_retry = rest]
    /\ UNCHANGED <<api, reorder, app, net>>

\* RETRANSMIT_TIMEOUT elapses since the send_time of pending packet seq_no
SendTimePasses(e, seq_no) ==
    /\ InPending(channel[e], seq_no)
    /\ channel[e].packet[seq_no].send_time = "fresh"
    /\ LinkQuiet
    /\ channel' = [channel EXCEPT ![e].packet[seq_no].send_time = "expired"]
    /\ UNCHANGED <<api, reorder, app, timer, wire, net, ghost>>

-----------------------------------------------------------------------------
\* A sender under an adversarial link: A sends two reliable frames; an ACK
\* for a frame that was transmitted arrives any number of times, or never

SendScript ==
    <<[payload |-> Text_p, reliable |-> TRUE], [payload |-> Text_p, reliable |-> TRUE]>>

SendInit ==
    InitWith([e \in Endpoints |-> 0],
             [e \in Endpoints |-> IF e = "A" THEN SendScript ELSE <<>>],
             [mode |-> "adversarial", start |-> 0, send_errors |-> TRUE,
              drop_first |-> {}, scenario |-> "sender"])

AppSendBegin == SendBegin("A")
AppSendTo == SendTo("A")
AppSendRaise == SendRaise("A")
AppSendTrack == SendTrack("A")
ArriveAck ==
    \E n \in DOMAIN ghost["A"].tx : Arrive("A", to_bytes(create_ack(n)))
SenderTimerScan == TimerScan("A")
SenderTimerRetransmit == TimerRetransmit("A")
SenderTimePasses == \E n \in Range(channel["A"].pending_packets) : SendTimePasses("A", n)

SendNext ==
    \/ AppSendBegin
    \/ AppSendTo
    \/ AppSendRaise
    \/ AppSendTrack
    \/ ArriveAck
    \/ SenderTimerScan
    \/ SenderTimerRetransmit
    \/ SenderTimePasses

SpecSend == SendInit /\ [][SendNext]_vars

-----------------------------------------------------------------------------
\* Two endpoints over a link that hands over every datagram in the order it
\* was sent, before any timeout elapses, except that it drops the first
\* transmission of the reliable data frames named by net.drop_first

NumSends == 6       \* reliable frames A sends in the loss scenario
LossSeq == 1        \* the frame whose first transmission is dropped there

Call(payload, reliable) == [payload |-> payload, reliable |-> reliable]

Scenarios ==
    {[name |-> "happy",
      A |-> <<Call(Text_p, TRUE), Call(Text_u, FALSE), Call(Text_p, TRUE)>>,
      B |-> <<>>, drop_first |-> {}],
     [name |-> "loss",
      A |-> [i \in 1 .. NumSends |-> Call(Text_p, TRUE)],
      B |-> <<>>, drop_first |-> {LossSeq}]}
    \cup
    {[name |-> "single", A |-> <<Call(payload, reliable)>>,
      B |-> <<Call(Text_p, TRUE)>>, drop_first |-> {}] :
        payload \in {Text_p, Text_ack0, Text_ackx}, reliable \in BOOLEAN}

E2EInit ==
    \E sc \in Scenarios :
        InitWith([e \in Endpoints |-> 0],
                 [e \in Endpoints |-> IF e = "A" THEN sc.A ELSE sc.B],
                 [mode |-> "fifo", start |-> 0, send_errors |-> FALSE,
                  drop_first |-> sc.drop_first, scenario |-> sc.name])

\* The datagram at the head of e's wire is one the link drops
HeadIsDropped(e) ==
    /\ wire[e] # <<>>
    /\ LET p == from_bytes(Head(wire[e])).packet
       IN  /\ p.channel_type = CHANNEL_RELIABLE
           /\ ~is_ack(p)
           /\ p.seq_no \in net.drop_first \ ghost[e].dropped

LinkDrop(e) ==
    /\ net.mode = "fifo"
    /\ HeadIsDropped(e)
    /\ wire' = [wire EXCEPT ![e] = Tail(@)]
    /\ ghost' = [ghost EXCEPT ![e].dropped =
                    @ \cup {from_bytes(Head(wire[e])).packet.seq_no}]
    /\ UNCHANGED <<api, channel, reorder, app, timer, net>>

\* The link hands the oldest datagram of e's peer to e's worker
LinkDeliver(e) ==
    /\ net.mode = "fifo"
    /\ api[e].receiver_thread = "alive"
    /\ wire[Peer(e)] # <<>>
    /\ ~HeadIsDropped(Peer(e))
    /\ LET res == receive_datagram(api[e], channel[e], reorder[e], Head(wire[Peer(e)]))
       IN  /\ CommitWorker(e :> res)
           /\ ghost' = [ghost EXCEPT ![e] =
                           GhostWorker(GhostFull(@, reorder[e], Head(wire[Peer(e)])), res)]
           /\ wire' = [x \in Endpoints |->
                          IF x = e THEN wire[e] \o res.out ELSE Tail(wire[x])]
    /\ UNCHANGED <<app, timer, net>>

E2ESendBegin == \E e \in Endpoints : SendBegin(e)
E2ESendTo == \E e \in Endpoints : SendTo(e)
E2ESendTrack == \E e \in Endpoints : SendTrack(e)
E2EDrop == \E e \in Endpoints : LinkDrop(e)
E2EDeliver == \E e \in Endpoints : LinkDeliver(e)
E2ETimeout == \E e \in Endpoints : SocketTimeout(e)
E2EGapTimePasses == \E e \in Endpoints : GapTimePasses(e)
E2ETimerScan == \E e \in Endpoints : TimerScan(e)
E2ETimerRetransmit == \E e \in Endpoints : TimerRetransmit(e)
E2ESendTimePasses ==
    \E e \in Endpoints : \E n \in Range(channel[e].pending_packets) : SendTimePasses(e, n)

E2ENext ==
    \/ E2ESendBegin
    \/ E2ESendTo
    \/ E2ESendTrack
    \/ E2EDrop
    \/ E2EDeliver
    \/ E2ETimeout
    \/ E2EGapTimePasses
    \/ E2ETimerScan
    \/ E2ETimerRetransmit
    \/ E2ESendTimePasses

SpecE2E == E2EInit /\ [][E2ENext]_vars

-----------------------------------------------------------------------------
\* GameNetAPI.close and ReliableChannel.shutdown, called by the application
\* thread when its send() calls are over.  join(timeout = 1.0) is taken to
\* return when the thread has exited: the timer thread looks at its flag every
\* 50 ms and the receive worker at least every 100 ms (the socket's timeout).

MaxCloses == 2      \* close() calls the application makes
CloseArrivals == 3  \* datagrams the link hands to the endpoint

\* self.running = False (game_net_api.py line 227)
close_begin(a) == [a EXCEPT !.running = FALSE]

\* self.running = False (reliable_channel.py line 194)
shutdown(c) == [c EXCEPT !.running = FALSE]

\* socket.close() that fails on a socket that is closed already
close_socket_once(a) ==
    [api |-> [a EXCEPT !.socket = "closed"], raised |-> a.socket = "closed"]

\* self.socket.close(): closing a closed socket is no error
close_socket(a) ==
    [api |-> [a EXCEPT !.socket = "closed"], raised |-> FALSE]

CloseBegin(e) ==
    /\ net.scenario = "close"
    /\ app[e].pc = "idle"
    /\ app[e].script = <<>>
    /\ app[e].closes < MaxCloses
    /\ api' = [api EXCEPT ![e] = close_begin(@)]
    /\ app' = [app EXCEPT ![e].pc = "shutdown"]
    /\ UNCHANGED <<channel, reorder, timer, wire, net, ghost>>

CloseShutdown(e) ==
    /\ app[e].pc = "shutdown"
    /\ channel' = [channel EXCEPT ![e] = shutdown(@)]
    /\ app' = [app EXCEPT ![e].pc = "join_timer"]
    /\ UNCHANGED <<api, reorder, timer, wire, net, ghost>>

\* "if self.timer_thread.is_alive(): self.timer_thread.join(...)"
CloseJoinTimer(e) ==
    /\ app[e].pc = "join_timer"
    /\ timer[e].pc = "exited"
    /\ app' = [app EXCEPT ![e].pc = "join_receiver"]
    /\ UNCHANGED <<api, channel, reorder, timer, wire, net, ghost>>

\* "if self.receiver_thread.is_alive(): self.receiver_thread.join(...)"
CloseJoinReceiver(e) ==
    /\ app[e].pc = "join_receiver"
    /\ api[e].receiver_thread = "exited"
    /\ app' = [app EXCEPT ![e].pc = "close_socket"]
    /\ UNCHANGED <<api, channel, reorder, timer, wire, net, ghost>>

CloseSocket(e) ==
    /\ app[e].pc = "close_socket"
    /\ LET res == close_socket(api[e])
       IN  /\ api' = [api EXCEPT ![e] = res.api]
           /\ app' = [app EXCEPT ![e].pc = "idle",
                                 ![e].closes = @ + 1,
                                 ![e].raised = @ \/ res.raised]
           /\ ghost' = [ghost EXCEPT ![e].closed =
                           IF app[e].closes = 0
                           THEN <<res.api, channel[e], reorder[e], timer[e]>>
                           ELSE @]
    /\ UNCHANGED <<channel, reorder, timer, wire, net>>

\* "while self.running" of _retransmission_timer finds the flag cleared
TimerExit(e) ==
    /\ timer[e].pc = "scan"
    /\ ~channel[e].running
    /\ timer' = [timer EXCEPT ![e].pc = "exited"]
    /\ UNCHANGED <<api, channel, reorder, app, wire, net, ghost>>

\* "while self.running" of _receive_loop finds the flag cleared
ReceiverExit(e) ==
    /\ api[e].receiver_thread = "alive"
    /\ ~api[e].running
    /\ api' = [api EXCEPT ![e].receiver_thread = "exited"]
    /\ UNCHANGED <<channel, reorder, app, timer, wire, net, ghost>>

\* Endpoint A sends one reliable frame, is handed reliable data frames and
\* ACKs in any order, and is closed MaxCloses times
CloseInit ==
    InitWith([e \in Endpoints |-> 0],
             [e \in Endpoints |-> IF e = "A" THEN <<Call(Text_p, TRUE)>> ELSE <<>>],
             [mode |-> "adversarial", start |-> 0, send_errors |-> FALSE,
              drop_first |-> {}, scenario |-> "close"])

ClosingArriveData ==
    \E n \in 0 .. 2 :
        /\ ghost["A"].n_arrivals < CloseArrivals
        /\ Arrive("A", ReliableData(n))
ClosingArriveAck ==
    /\ ghost["A"].n_arrivals < CloseArrivals
    /\ ArriveAck
ClosingTimeout == SocketTimeout("A")
ClosingGapTimePasses == GapTimePasses("A")
AppCloseBegin == CloseBegin("A")
AppCloseShutdown == CloseShutdown("A")
AppCloseJoinTimer == CloseJoinTimer("A")
AppCloseJoinReceiver == CloseJoinReceiver("A")
AppCloseSocket == CloseSocket("A")
ClosingTimerExit == TimerExit("A")
ClosingReceiverExit == ReceiverExit("A")

CloseNext ==
    \/ AppSendBegin
    \/ AppSendTo
    \/ AppSendTrack
    \/ ClosingArriveData
    \/ ClosingArriveAck
    \/ ClosingTimeout
    \/ ClosingGapTimePasses
    \/ SenderTimerScan
    \/ SenderTimerRetransmit
    \/ SenderTimePasses
    \/ AppCloseBegin
    \/ AppCloseShutdown
    \/ AppCloseJoinTimer
    \/ AppCloseJoinReceiver
    \/ AppCloseSocket
    \/ ClosingTimerExit
    \/ ClosingReceiverExit

SpecClose == CloseInit /\ [][CloseNext]_vars

-----------------------------------------------------------------------------
\* A receiver whose expected_seq starts anywhere on the sequence circle and
\* that is handed reliable data frames with sequence numbers from anywhere

ProbeArrivals == 2  \* datagrams handed to the receiver

\* The ends, the middle and the quarters of the sequence space
ProbeSeqs ==
    {0, 1, HALF_SEQ_SPACE \div 2, HALF_SEQ_SPACE - 1, HALF_SEQ_SPACE,
     HALF_SEQ_SPACE + 1, HALF_SEQ_SPACE + HALF_SEQ_SPACE \div 2,
     SEQ_SPACE - 2, SEQ_SPACE - 1}

ProbeInit ==
    \E s \in ProbeSeqs :
        InitWith([e \in Endpoints |-> IF e = "A" THEN s ELSE 0], NoScripts,
                 [mode |-> "adversarial", start |-> s, send_errors |-> FALSE,
                  drop_first |-> {}, scenario |-> "probe"])

ProbeArrive ==
    \E n \in ProbeSeqs :
        /\ ghost["B"].n_arrivals < ProbeArrivals
        /\ Arrive("B", ReliableData(n))

ProbeNext == ProbeArrive

SpecProbe == ProbeInit /\ [][ProbeNext]_vars

-----------------------------------------------------------------------------
\* A full reorder buffer: A has sent the reliable frames 0 .. REORDER_BUFFER_SIZE
\* in a burst, the link lost frame 0 and handed the others to B, whose worker
\* acknowledged and buffered them; A's worker has processed these ACKs.  A
\* then sends one more reliable frame over a link that loses nothing.

\* The endpoints' objects after the burst up to frame n >= 1: A has called
\* send() n + 1 times and acknowledge() for 1 .. n, B's worker has put the
\* frames 1 .. n into the buffer (no duplicate ACK: last_acked is -1)
AfterBurst(n) ==
    [apiA |-> [GameNetAPIInit(0, 0) EXCEPT
                  !.reliable_seq = n + 1,
                  !.last_acked_seq = n,
                  !.metrics.reliable_sent = n + 1,
                  !.metrics.acks_received = n],
     channelA |-> [ReliableChannelInit(0) EXCEPT
                      !.pending_packets = <<0>>,
                      !.packet = [k \in 0 .. n |->
                                     [PendingPacket(ReliableData(k), k) EXCEPT
                                         !.acked = k # 0]],
                      !.stats.sent = n + 1,
                      !.stats.acked = n],
     ghostA |-> [GhostInit EXCEPT
                    !.sends = [i \in 1 .. n + 1 |->
                                  GamePacket(CHANNEL_RELIABLE, i - 1, Text_p)],
                    !.tx = [k \in 0 .. n |-> 1],
                    !.acked = 1 .. n,
                    !.dropped = {0}],
     apiB |-> [GameNetAPIInit(0, 0) EXCEPT !.metrics.acks_sent = n],
     channelB |-> ReliableChannelInit(0),
     reorderB |-> [ReorderBufferInit(0) EXCEPT
                      !.buffer = [k \in 1 .. n |->
                                     GamePacket(CHANNEL_RELIABLE, k, Text_p)],
                      !.gap_start_time = "running"],
     ghostB |-> [GhostInit EXCEPT !.ack_tx = [k \in 1 .. n |-> 1]]]

FullInit ==
    LET burst == AfterBurst(REORDER_BUFFER_SIZE)
    IN  /\ api = [e \in Endpoints |-> IF e = "A" THEN burst.apiA ELSE burst.apiB]
        /\ channel = [e \in Endpoints |->
                         IF e = "A" THEN burst.channelA ELSE burst.channelB]
        /\ reorder = [e \in Endpoints |->
                         IF e = "A" THEN ReorderBufferInit(0) ELSE burst.reorderB]
        /\ app = [e \in Endpoints |->
                     AppInit(IF e = "A" THEN <<Call(Text_p, TRUE)>> ELSE <<>>)]
        /\ timer = [e \in Endpoints |-> TimerInit]
        /\ wire = [e \in Endpoints |-> <<>>]
        /\ net = [mode |-> "fifo", start |-> 0, send_errors |-> FALSE,
                  drop_first |-> {}, scenario |-> "full"]
        /\ ghost = [e \in Endpoints |-> IF e = "A" THEN burst.ghostA ELSE burst.ghostB]

FullNext ==
    \/ E2ESendBegin
    \/ E2ESendTo
    \/ E2ESendTrack
    \/ E2EDeliver
    \/ E2ETimeout
    \/ E2EGapTimePasses
    \/ E2ETimerScan
    \/ E2ETimerRetransmit
    \/ E2ESendTimePasses

SpecFull == FullInit /\ [][FullNext]_vars

-----------------------------------------------------------------------------
\* send() called by two application threads of endpoint A.  send() takes no
\* lock, so the threads can be switched between any two of its statements
\* and within the read-modify-write of the counter (lines 66 and 69).

ThreadSends == 2

Threads == {1, 2}

\* Line 65 (68): the sequence number is read; the packet of lines 71-72 is
\* built from values local to the call
send_read_seq(a, t, data, reliable) ==
    LET seq_no == IF reliable THEN a.reliable_seq ELSE a.unreliable_seq
        channel_type == IF reliable THEN CHANNEL_RELIABLE ELSE CHANNEL_UNRELIABLE
    IN  [t EXCEPT !.pc = "increment_load", !.seq_no = seq_no, !.reliable = reliable,
                  !.packet_bytes = to_bytes(GamePacket(channel_type, seq_no, data)),
                  !.script = Tail(@)]

\* Line 66 (69), the right-hand side: the counter is read again
send_increment_load(a, t) ==
    [t EXCEPT !.pc = "increment_store",
              !.loaded = IF t.reliable THEN a.reliable_seq ELSE a.unreliable_seq]

\* Line 66 (69), the assignment
send_increment_store(a, t) ==
    [api |-> IF t.reliable
             THEN [a EXCEPT !.reliable_seq = (t.loaded + 1) % SEQ_SPACE]
             ELSE [a EXCEPT !.unreliable_seq = (t.loaded + 1) % SEQ_SPACE],
     app |-> [t EXCEPT !.pc = "sendto"]]

Thread(th) == IF th = 1 THEN app["A"] ELSE app["A"].second
SetThread(th, t) ==
    app' = IF th = 1 THEN [app EXCEPT !["A"] = t] ELSE [app EXCEPT !["A"].second = t]

ThreadReadSeq ==
    \E th \in Threads :
        /\ Thread(th).pc = "idle"
        /\ Thread(th).script # <<>>
        /\ LET call == Head(Thread(th).script)
           IN  SetThread(th, send_read_seq(api["A"], Thread(th), call.payload,
                                           call.reliable))
        /\ UNCHANGED <<api, channel, reorder, timer, wire, net, ghost>>

ThreadIncrementLoad ==
    \E th \in Threads :
        /\ Thread(th).pc = "increment_load"
        /\ SetThread(th, send_increment_load(api["A"], Thread(th)))
        /\ UNCHANGED <<api, channel, reorder, timer, wire, net, ghost>>

ThreadIncrementStore ==
    \E th \in Threads :
        /\ Thread(th).pc = "increment_store"
        /\ LET res == send_increment_store(api["A"], Thread(th))
           IN  /\ api' = [api EXCEPT !["A"] = res.api]
               /\ SetThread(th, res.app)
        /\ UNCHANGED <<channel, reorder, timer, wire, net, ghost>>

ThreadSendTo ==
    \E th \in Threads :
        /\ Thread(th).pc = "sendto"
        /\ wire' = [wire EXCEPT !["A"] = Sendto("A", <<Thread(th).packet_bytes>>)]
        /\ ghost' = [ghost EXCEPT !["A"] =
                        [GhostSent(@, <<Thread(th).packet_bytes>>) EXCEPT
                            !.sends = Append(@, from_bytes(Thread(th).packet_bytes).packet),
                            !.slog = IF Thread(th).reliable
                                     THEN Append(@, <<"sendto", th, Thread(th).seq_no>>)
                                     ELSE @]]
        /\ SetThread(th, [Thread(th) EXCEPT !.pc = "track"])
        /\ UNCHANGED <<api, channel, reorder, timer, net>>

ThreadTrack ==
    \E th \in Threads :
        /\ Thread(th).pc = "track"
        /\ LET res == send_track(api["A"], channel["A"], Thread(th))
           IN  /\ api' = [api EXCEPT !["A"] = res.api]
               /\ channel' = [channel EXCEPT !["A"] = res.channel]
               /\ SetThread(th, res.app)
        /\ ghost' = [ghost EXCEPT !["A"].slog =
                        IF Thread(th).reliable
                        THEN Append(@, <<"track", th, Thread(th).seq_no>>)
                        ELSE @]
        /\ UNCHANGED <<reorder, timer, wire, net>>

\* Each thread makes ThreadSends calls, each call reliable or not
ThreadScripts == [1 .. ThreadSends -> {Call(Text_p, TRUE), Call(Text_u, FALSE)}]

ThreadsInit ==
    \E s1 \in ThreadScripts : \E s2 \in ThreadScripts :
        /\ api = [e \in Endpoints |-> GameNetAPIInit(0, 0)]
        /\ channel = [e \in Endpoints |-> ReliableChannelInit(0)]
        /\ reorder = [e \in Endpoints |-> ReorderBufferInit(0)]
        /\ app = [e \in Endpoints |->
                     IF e = "A" THEN [AppInit(s1) EXCEPT !.second = AppInit(s2)]
                     ELSE AppInit(<<>>)]
        /\ timer = [e \in Endpoints |-> TimerInit]
        /\ wire = [e \in Endpoints |-> <<>>]
        /\ net = [mode |-> "adversarial", start |-> 0, send_errors |-> FALSE,
                  drop_first |-> {}, scenario |-> "threads"]
        /\ ghost = [e \in Endpoints |-> GhostInit]

ThreadsNext ==
    \/ ThreadReadSeq
    \/ ThreadIncrementLoad
    \/ ThreadIncrementStore
    \/ ThreadSendTo
    \/ ThreadTrack

SpecThreads == ThreadsInit /\ [][ThreadsNext]_vars

-----------------------------------------------------------------------------
\* _retransmit_packet statement by statement.  The timer calls it with the
\* lock released (lines 164-166), so the worker's acknowledge and
\* handle_duplicate_ack, which hold the lock, can run between any two of its
\* steps and within each "+= 1".  pc of the timer: "retry" (before line 175),
\* "retry_count_store", "sendto" (before line 179), "retransmitted_load",
\* "retransmitted_store", "total_retries_load", "total_retries_store".

RaceArrivals == 4

\* Line 175, the right-hand side: retry_count is read
RetryCountLoad(e) ==
    /\ timer[e].pc = "retry"
    /\ timer' = [timer EXCEPT
                    ![e].pc = "retry_count_store",
                    ![e].loaded =
                        channel[e].packet[Head(timer[e].packets_to_retry)].retry_count]
    /\ UNCHANGED <<api, channel, reorder, app, wire, net, ghost>>

\* Line 175, the assignment, and line 176
RetryCountStore(e) ==
    /\ timer[e].pc = "retry_count_store"
    /\ LET seq_no == Head(timer[e].packets_to_retry)
       IN  channel' = [channel EXCEPT
                          ![e].packet[seq_no].retry_count = timer[e].loaded + 1,
                          ![e].packet[seq_no].send_time = "fresh"]
    /\ timer' = [timer EXCEPT ![e].pc = "sendto"]
    /\ UNCHANGED <<api, reorder, app, wire, net, ghost>>

\* Line 179
RetrySendto(e) ==
    /\ timer[e].pc = "sendto"
    /\ LET out == <<channel[e].packet[Head(timer[e].packets_to_retry)].packet_data>>
       IN  /\ wire' = [wire EXCEPT ![e] = Sendto(e, out)]
           /\ ghost' = [ghost EXCEPT ![e] = GhostSent(@, out)]
    /\ timer' = [timer EXCEPT ![e].pc = "retransmitted_load"]
    /\ UNCHANGED <<api, channel, reorder, app, net>>

\* Lines 180 and 181, the right-hand sides: the statistic is read
RetryStatLoad(e) ==
    \E stat \in {"retransmitted", "total_retries"} :
        /\ timer[e].pc = stat \o "_load"
        /\ timer' = [timer EXCEPT ![e].pc = stat \o "_store",
                                  ![e].loaded = channel[e].stats[stat]]
        /\ UNCHANGED <<api, channel, reorder, app, wire, net, ghost>>

\* Lines 180 and 181, the assignments; after line 181 the loop of line 165
\* goes on to the next packet
RetryStatStore(e) ==
    \E stat \in {"retransmitted", "total_retries"} :
        /\ timer[e].pc = stat \o "_store"
        /\ channel' = [channel EXCEPT ![e].stats[stat] = timer[e].loaded + 1]
        /\ LET rest == Tail(timer[e].packets_to_retry)
           IN  timer' = IF stat = "retransmitted"
                        THEN [timer EXCEPT ![e].pc = "total_retries_load"]
                        ELSE [timer EXCEPT
                                 ![e].pc = IF rest = <<>> THEN "scan" ELSE "retry",
                                 ![e].packets_to_retry = rest]
        /\ UNCHANGED <<api, reorder, app, wire, net, ghost>>

\* A sends two reliable frames; ACKs for transmitted frames arrive in any
\* order and number up to RaceArrivals
RaceInit ==
    InitWith([e \in Endpoints |-> 0],
             [e \in Endpoints |-> IF e = "A" THEN SendScript ELSE <<>>],
             [mode |-> "adversarial", start |-> 0, send_errors |-> FALSE,
              drop_first |-> {}, scenario |-> "race"])

RaceArriveAck ==
    /\ ghost["A"].n_arrivals < RaceArrivals
    /\ ArriveAck
RaceRetryCountLoad == RetryCountLoad("A")
RaceRetryCountStore == RetryCountStore("A")
RaceRetrySendto == RetrySendto("A")
RaceRetryStatLoad == RetryStatLoad("A")
RaceRetryStatStore == RetryStatStore("A")

RaceNext ==
    \/ AppSendBegin
    \/ AppSendTo
    \/ AppSendTrack
    \/ RaceArriveAck
    \/ SenderTimerScan
    \/ RaceRetryCountLoad
    \/ RaceRetryCountStore
    \/ RaceRetrySendto
    \/ RaceRetryStatLoad
    \/ RaceRetryStatStore
    \/ SenderTimePasses

SpecRace == RaceInit /\ [][RaceNext]_vars

-----------------------------------------------------------------------------
\* Endpoint A sends two reliable frames and is handed reliable data frames,
\* ACKs and malformed datagrams in any order

MalformedArrivals == 4

MalformedInit ==
    InitWith([e \in Endpoints |-> 0],
             [e \in Endpoints |-> IF e = "A" THEN SendScript ELSE <<>>],
             [mode |-> "adversarial", start |-> 0, send_errors |-> FALSE,
              drop_first |-> {}, scenario |-> "malformed"])

MalformedArriveData ==
    \E n \in 0 .. 2 :
        /\ ghost["A"].n_arrivals < MalformedArrivals
        /\ Arrive("A", ReliableData(n))
MalformedArriveAck ==
    /\ ghost["A"].n_arrivals < MalformedArrivals
    /\ ArriveAck
MalformedArrive ==
    \E k \in DOMAIN Malformed : \E data \in Malformed[k] :
        /\ ghost["A"].n_arrivals < MalformedArrivals
        /\ Arrive("A", data)

MalformedNext ==
    \/ AppSendBegin
    \/ AppSendTo
    \/ AppSendTrack
    \/ MalformedArriveData
    \/ MalformedArriveAck
    \/ MalformedArrive

SpecMalformed == MalformedInit /\ [][MalformedNext]_vars

-----------------------------------------------------------------------------
\* Endpoint A sends two reliable frames and is handed reliable data frames,
\* ACKs and unreliable datagrams number 0 and 1 in any order

UnreliableFrame(seq_no) == GamePacket(CHANNEL_UNRELIABLE, seq_no, Text_u)

MixedArriveUnreliable ==
    \E n \in 0 .. 1 :
        /\ ghost["A"].n_arrivals < MalformedArrivals
        /\ Arrive("A", to_bytes(UnreliableFrame(n)))

MixedNext ==
    \/ AppSendBegin
    \/ AppSendTo
    \/ AppSendTrack
    \/ MalformedArriveData
    \/ MalformedArriveAck
    \/ MixedArriveUnreliable

SpecMixed == MalformedInit /\ [][MixedNext]_vars

-----------------------------------------------------------------------------
\* Endpoint A sends two reliable frames and is handed ACK frames whose payload
\* number is no sequence number (ACK:-1) or is not the number of the header
\* (header 1, payload ACK:0)

ForgedAcks ==
    {to_bytes(GamePacket(CHANNEL_RELIABLE, SEQ_SPACE - 1, AckPrefix \o <<"-", "1">>)),
     to_bytes(GamePacket(CHANNEL_RELIABLE, 1, Text_ack0))}

ForgedArriveAck ==
    \E data \in ForgedAcks :
        /\ ghost["A"].n_arrivals < MalformedArrivals
        /\ Arrive("A", data)

ForgedNext ==
    \/ AppSendBegin
    \/ AppSendTo
    \/ AppSendTrack
    \/ ForgedArriveAck

SpecForged == MalformedInit /\ [][ForgedNext]_vars

-----------------------------------------------------------------------------
\* A receiver whose application polls: reliable and unreliable datagrams arrive
\* at B in any order while application threads call receive().  The body of
\* receive() runs under buffer_lock, as every append of the worker does, so a
\* call is one step whichever thread makes it.

MaxReceives == 3
PollArrivals == 4

PollInit == InitWith([e \in Endpoints |-> 0], NoScripts, LinkAdversarial(0))

AppReceive ==
    /\ Len(ghost["B"].returned) < MaxReceives
    /\ LET got == receive(api["B"])
       IN  /\ api' = [api EXCEPT !["B"] = got.api]
           /\ ghost' = [ghost EXCEPT !["B"].returned = Append(@, got.value)]
    /\ UNCHANGED <<channel, reorder, app, timer, wire, net>>

PollArriveReliable == ghost["B"].n_arrivals < PollArrivals /\ ArriveReliable
PollArriveUnreliable == ghost["B"].n_arrivals < PollArrivals /\ ArriveUnreliable
PollTimeout == SocketTimeout("B")
PollTimePasses == GapTimePasses("B")

PollNext ==
    \/ PollArriveReliable
    \/ PollArriveUnreliable
    \/ PollTimeout
    \/ PollTimePasses
    \/ AppReceive

SpecPoll == PollInit /\ [][PollNext]_vars

-----------------------------------------------------------------------------
\* A receiver whose socket read stops timing out: reliable data frames arrive
\* at B in any order, with socket timeouts in between, until a flood begins.
\* From then on no reliable data frame arrives and ACK and unreliable
\* datagrams arrive less than 100 ms apart (settimeout(0.1)), so recvfrom
\* returns a datagram on every pass of the loop.

\* The ACK datagrams of the flood, sent in turn
FloodDatagrams ==
    <<to_bytes(GamePacket(CHANNEL_RELIABLE, 1, Text_ackx)),
      to_bytes(GamePacket(CHANNEL_RELIABLE, 1, AckPrefix))>>

FloodInit ==
    /\ InitWith([e \in Endpoints |-> 0], NoScripts,
                [mode |-> "adversarial", start |-> 0, send_errors |-> FALSE,
                 drop_first |-> {}, scenario |-> "receiver", next |-> 1])

FloodArriveReliable ==
    /\ net.scenario = "receiver"
    /\ ArriveReliable
FloodTimeout ==
    /\ net.scenario = "receiver"
    /\ SocketTimeout("B")
FloodBegins ==
    /\ net.scenario = "receiver"
    /\ net' = [net EXCEPT !.scenario = "flood"]
    /\ UNCHANGED <<api, channel, reorder, app, timer, wire, ghost>>
\* One pass of the loop on the next ACK datagram of the flood
FloodAck ==
    /\ net.scenario = "flood"
    /\ api["B"].receiver_thread = "alive"
    /\ LET res == receive_datagram(api["B"], channel["B"], reorder["B"],
                                   FloodDatagrams[net.next])
       IN  /\ CommitWorker("B" :> res)
           /\ ghost' = [ghost EXCEPT !["B"] = GhostWorker(@, res)]
           /\ wire' = [wire EXCEPT !["B"] = Sendto("B", res.out)]
    /\ net' = [net EXCEPT !.next = 3 - @]
    /\ UNCHANGED <<app, timer>>
FloodUnreliable ==
    /\ net.scenario = "flood"
    /\ api["B"].metrics.unreliable_received < MaxUnreliable
    /\ ArriveUnreliable
FloodGapTimePasses == GapTimePasses("B")

FloodNext ==
    \/ FloodArriveReliable
    \/ FloodTimeout
    \/ FloodBegins
    \/ FloodAck
    \/ FloodUnreliable
    \/ FloodGapTimePasses

SpecFlood == FloodInit /\ [][FloodNext]_vars

\* The worker's loop keeps running and time keeps passing
FairFlood ==
    SpecFlood /\ WF_vars(FloodTimeout) /\ WF_vars(FloodAck) /\ WF_vars(FloodGapTimePasses)

-----------------------------------------------------------------------------
\* Claims about the receiver

\* b comes after a on the sequence circle, less than half of it away
WrapAfter(a, b) == (b - a) % SEQ_SPACE \in 1 .. HALF_SEQ_SPACE - 1

Delivered(e) == {i \in DOMAIN ghost[e].rlog : ghost[e].rlog[i][1] = "deliver"}
Skipped(e) == {i \in DOMAIN ghost[e].rlog : ghost[e].rlog[i][1] = "skip"}
DeliveredSeqs(e) == {ghost[e].rlog[i][2] : i \in Delivered(e)}
SkippedSeqs(e) == {ghost[e].rlog[i][2] : i \in Skipped(e)}

\* C1: whatever arrives in whatever order, with gap timeouts in between, the
\* reliable frames appended to B's delivery queue have strictly increasing
\* seq in the wraparound-aware sense, and no frame is appended after its seq
\* was skipped by a gap timeout.
C1_OrderedDelivery ==
    LET log == ghost["B"].rlog
    IN  \A i, j \in DOMAIN log :
            i < j =>
                /\ (i \in Delivered("B") /\ j \in Delivered("B"))
                        => WrapAfter(log[i][2], log[j][2])
                /\ (i \in Skipped("B") /\ j \in Delivered("B"))
                        => log[j][2] # log[i][2]

\* C1's case: a seq was skipped and arrived afterwards, and the deliveries
\* cross the 65535 -> 0 boundary
C1_Witness ==
    /\ \E n \in SkippedSeqs("B") : Count(ghost["B"].arrivals, n) >= 1
    /\ {SEQ_SPACE - 1, 0} \subseteq DeliveredSeqs("B")

\* C2: every arrival of a reliable data frame is answered by an ACK for its
\* seq, and however often a frame arrives it is appended to the delivery
\* queue at most once, reliable_received counting one per appended frame.
C2_DuplicateArrivals ==
    LET g == ghost["B"]
        seqs == WindowSeqs(net.start)
    IN  /\ \A n \in seqs :
              /\ Cardinality({i \in Delivered("B") : g.rlog[i][2] = n}) <= 1
              /\ Count(g.ack_tx, n) >= Count(g.arrivals, n)
        /\ api["B"].metrics.reliable_received - net.start
              = Cardinality(DeliveredSeqs("B"))
        /\ api["B"].metrics.reliable_received - net.start
              = Cardinality(Delivered("B"))

\* C2's case: a frame arrived while expected and again after its delivery,
\* another arrived after it was skipped
C2_Witness ==
    /\ \E n \in DeliveredSeqs("B") :
          Count(ghost["B"].arrivals, n) >= 2 /\ Count(ghost["B"].ack_tx, n) >= 2
    /\ \E n \in SkippedSeqs("B") : Count(ghost["B"].arrivals, n) >= 1

\* C5: once nothing arrives any more, the periodic check_timeout calls empty
\* the reorder buffer.
C5_BufferDrains ==
    (ghost["B"].n_arrivals = MaxArrivals /\ DOMAIN reorder["B"].buffer # {})
        ~> (DOMAIN reorder["B"].buffer = {})

\* C7: the reliable frames in the delivery queue, and their order, are the
\* same with and without the interleaved unreliable datagrams.
C7_NonInterference ==
    SelectSeq(api["A"].receive_buffer, IsReliable)
        = SelectSeq(api["B"].receive_buffer, IsReliable)

\* C7's case: unreliable frames lie between reliable ones in B's queue, and
\* a gap was skipped
C7_Witness ==
    LET q == api["B"].receive_buffer
    IN  /\ \E i, j, k \in DOMAIN q :
              /\ i < j /\ j < k
              /\ IsReliable(q[i]) /\ ~IsReliable(q[j]) /\ IsReliable(q[k])
        /\ SkippedSeqs("B") # {}

-----------------------------------------------------------------------------
\* Claims about the sender

\* C3: whatever the interleaving of the timer thread with the worker's
\* duplicate-ACK handling, a reliable frame is put on the wire at most
\* 1 + MAX_RETRANSMITS times and its retry_count stays within MAX_RETRANSMITS.
C3_RetryBudget ==
    \A n \in DOMAIN channel["A"].packet :
        /\ channel["A"].packet[n].retry_count <= MAX_RETRANSMITS
        /\ Count(ghost["A"].tx, n) <= 1 + MAX_RETRANSMITS

\* C9: a sendto failure inside send(payload, reliable = true) does not reach
\* the caller, and the frame has a pending entry afterwards (until it is
\* acknowledged or given up).
C9_SendErrorKept ==
    \A n \in ghost["A"].send_failed :
        /\ ~app["A"].raised
        /\ \/ InPending(channel["A"], n)
           \/ n \in ghost["A"].acked
           \/ n \in ghost["A"].failed

\* C10: seq is a key of pending exactly when reliable seq has been
\* transmitted at least once and the sender has neither acted on an ACK for
\* it nor given it up.
C10_PendingIff ==
    \A n \in WindowSeqs(net.start) :
        InPending(channel["A"], n)
            <=> /\ Count(ghost["A"].tx, n) >= 1
                /\ n \notin ghost["A"].acked
                /\ n \notin ghost["A"].failed

-----------------------------------------------------------------------------
\* Claims about two endpoints over the "fifo" link

\* Every send() call of A is over and every datagram was handed over
LinkDrained ==
    /\ \A x \in Endpoints :
          wire[x] = <<>> /\ app[x].pc = "idle" /\ app[x].script = <<>>

\* Nothing is left to do at A: no pending packet, the timer thread is idle
SenderDone ==
    /\ LinkDrained
    /\ channel["A"].pending_packets = <<>>
    /\ timer["A"].pc = "scan"

\* C4: over a link that drops nothing, a frame A sent with send(p, reliable)
\* is delivered at B with payload p and the channel the sender chose, and B
\* acts on an ACK number only if A received the reliable frame of that number
\* (a data frame never alters B's own pending set).
C4_RoundTrip ==
    net.drop_first = {} =>
        /\ LinkDrained =>
              \A i \in DOMAIN ghost["A"].sends :
                  \E j \in DOMAIN ghost["B"].dlog :
                      ghost["B"].dlog[j] = ghost["A"].sends[i]
        /\ \A n \in ghost["B"].acked : n \in DeliveredSeqs("A")

\* C6: when only frame LossSeq of frames 0 .. NumSends - 1 is dropped and the
\* duplicate ACKs of all later frames have reached A, A has retransmitted
\* LossSeq by fast retransmit (fast_retransmits >= 1); the timer is not needed.
C6_FastRetransmit ==
    (/\ net.scenario = "loss"
     /\ LinkDrained
     /\ DOMAIN reorder["B"].buffer = LossSeq + 1 .. NumSends - 1
     /\ timer["A"].pc = "scan")
        => channel["A"].stats.fast_retransmits >= 1

\* C8: in the three-send scenario over a link that drops nothing and returns
\* every ACK in time, B's queue yields the first reliable payload before the
\* second, and A ends with reliable_sent = 2, unreliable_sent = 1,
\* acks_received = 2, packets_retransmitted = 0 and packets_failed = 0.
C8_HappyPath ==
    (net.scenario = "happy" /\ SenderDone) =>
        /\ SeqNos(SelectSeq(ghost["B"].dlog, IsReliable)) = <<0, 1>>
        /\ api["A"].metrics.reliable_sent = 2
        /\ api["A"].metrics.unreliable_sent = 1
        /\ api["A"].metrics.acks_received = 2
        /\ channel["A"].stats.retransmitted = 0
        /\ channel["A"].stats.failed = 0

-----------------------------------------------------------------------------
\* Claims about the reorder buffer's contents and the worker's ACKs

\* C11: after every add_packet and check_timeout, no key of the reorder
\* buffer equals expected_seq and every key is ahead of expected_seq on the
\* sequence circle.
C11_BufferAhead ==
    \A k \in DOMAIN reorder["B"].buffer :
        /\ k # reorder["B"].expected_seq
        /\ WrapAfter(reorder["B"].expected_seq, k)

\* C11's case: a gap timeout skipped a sequence number while frames were
\* buffered, and a frame is still buffered whose key lies across the
\* 65535 -> 0 boundary from expected_seq
C11_Witness ==
    /\ SkippedSeqs("B") # {}
    /\ \E k \in DOMAIN reorder["B"].buffer : k < reorder["B"].expected_seq

\* C12: a reliable frame is in the delivery queue only if the worker has put
\* an ACK carrying the frame's own seq on the socket before appending it.
C12_AckBeforeDelivery ==
    \A n \in DeliveredSeqs("B") : Count(ghost["B"].ack_tx, n) >= 1

\* C12's case: frames were delivered on arrival, drained after the gap was
\* filled, and drained after a gap-timeout skip
C12_Witness ==
    /\ reorder["B"].reordered_count >= 1
    /\ \E i \in Skipped("B") : i + 1 \in Delivered("B")
    /\ Cardinality(Delivered("B")) >= 3

-----------------------------------------------------------------------------
\* Claims about giving up, the sequence predicate and duplicated ACKs

\* C13: a reliable frame whose ACK the sender never processes is given up
\* (removed from pending, failed incremented by one) exactly when it has been
\* transmitted 1 + MAX_RETRANSMITS times, and it never enters the sender's
\* delivery queue.
C13_GivenUpAfter13 ==
    /\ \A n \in ghost["A"].failed \ ghost["A"].acked :
          /\ Count(ghost["A"].tx, n) = 1 + MAX_RETRANSMITS
          /\ ~InPending(channel["A"], n)
    /\ channel["A"].stats.failed = Cardinality(ghost["A"].failed)
    /\ api["A"].receive_buffer = <<>>

\* The sequence numbers at the decisive distances from expected_seq
NearSeqs(expected) ==
    {(expected + d) % SEQ_SPACE :
        d \in {0, 1, 2, HALF_SEQ_SPACE - 1, HALF_SEQ_SPACE, HALF_SEQ_SPACE + 1,
               SEQ_SPACE - 1}}

\* C14: _is_ahead(seq) is true exactly when (seq - expected_seq) mod SEQ_SPACE
\* lies strictly between 0 and SEQ_SPACE / 2.
C14_IsAhead ==
    \A seq \in ProbeSeqs \cup NearSeqs(reorder["B"].expected_seq) :
        is_ahead(reorder["B"], seq)
            <=> (seq - reorder["B"].expected_seq) % SEQ_SPACE
                    \in 1 .. HALF_SEQ_SPACE - 1

\* C14's case: with expected_seq in the second half of the sequence space, a
\* frame from beyond the 65535 -> 0 boundary was buffered as ahead, and one
\* exactly half the space away arrived and was not
C14_Witness ==
    /\ reorder["B"].expected_seq >= HALF_SEQ_SPACE
    /\ \E k \in DOMAIN reorder["B"].buffer : k < reorder["B"].expected_seq - HALF_SEQ_SPACE
    /\ \E n \in DOMAIN ghost["B"].arrivals :
          /\ (n - reorder["B"].expected_seq) % SEQ_SPACE = HALF_SEQ_SPACE
          /\ n \notin DOMAIN reorder["B"].buffer

\* A's worker processes an ACK whose number it has acted on before: the
\* number is last_acked_seq afterwards, whichever way the ACK was routed
ExtraAckStep ==
    /\ api["A"].metrics.acks_received' = api["A"].metrics.acks_received + 1
    /\ api["A"].last_acked_seq' \in ghost["A"].acked

\* The frame the ACK is for is not waiting for an ACK any more
NotAwaited(n) == ~InPending(channel["A"], n) \/ channel["A"].packet[n].acked

\* Data frames put on the socket in the step
SentInStep ==
    {k \in DOMAIN ghost["A"].tx' : Count(ghost["A"].tx', k) # Count(ghost["A"].tx, k)}

\* What holds of the step whatever else it may do: the delivery queue and the
\* reorder buffer stay, an acknowledged frame is not counted again, the
\* duplicate-ACK count of the number moves by one or is reset by a fast
\* retransmit, and at most one frame is retransmitted once the count has
\* reached DUP_ACK_THRESHOLD
ExtraAckKeeps(n) ==
    /\ api["A"].receive_buffer' = api["A"].receive_buffer
    /\ reorder' = reorder
    /\ NotAwaited(n) =>
          /\ channel["A"].stats.acked' = channel["A"].stats.acked
          /\ channel["A"].pending_packets' = channel["A"].pending_packets
    /\ \A k \in DOMAIN channel["A"].dup_ack_count' :
          k # n => Count(channel["A"].dup_ack_count, k) = channel["A"].dup_ack_count'[k]
    /\ Count(channel["A"].dup_ack_count', n)
          \in {Count(channel["A"].dup_ack_count, n),
               Count(channel["A"].dup_ack_count, n) + 1, 0}
    /\ Cardinality(SentInStep) <= 1
    /\ \A k \in SentInStep :
          /\ k = (n + 1) % SEQ_SPACE
          /\ Count(ghost["A"].tx', k) = Count(ghost["A"].tx, k) + 1
          /\ Count(channel["A"].dup_ack_count, n) + 1 >= DUP_ACK_THRESHOLD
          /\ channel["A"].stats.fast_retransmits' = channel["A"].stats.fast_retransmits + 1
    /\ SentInStep = {} =>
          channel["A"].stats.fast_retransmits' = channel["A"].stats.fast_retransmits

\* C15 as claimed: an extra copy of an ACK changes nothing of the endpoint
\* but the duplicate-ACK count and what a fast retransmit changes.
C15_OnlyDupEffects ==
    [][ExtraAckStep =>
          LET n == api["A"].last_acked_seq'
          IN  /\ ExtraAckKeeps(n)
              /\ api' = api
              /\ channel["A"].pending_packets' = channel["A"].pending_packets
              /\ channel["A"].stats.acked' = channel["A"].stats.acked]_vars

\* C15: an extra copy of an ACK never changes the delivery queue or the
\* reorder buffer and never counts an acknowledged frame again; it is counted
\* in acks_received and its number becomes last_acked_seq, and beyond that it
\* can only acknowledge a frame still pending, move the duplicate-ACK count
\* and, once the count reaches DUP_ACK_THRESHOLD, cause one fast retransmit.
C15_ExtraAckEffects ==
    [][ExtraAckStep =>
          LET n == api["A"].last_acked_seq'
          IN  /\ ExtraAckKeeps(n)
              /\ api' = [api EXCEPT !["A"].metrics.acks_received = @ + 1,
                                    !["A"].last_acked_seq = n]]_vars

\* C15's case: more ACKs were processed than there are distinct numbers, and
\* the copies have caused a fast retransmit
C15_Witness ==
    /\ api["A"].metrics.acks_received > Cardinality(ghost["A"].acked)
    /\ channel["A"].stats.fast_retransmits >= 1
    /\ channel["A"].stats.acked >= 1

-----------------------------------------------------------------------------
\* Claims about close()

\* The objects with their time stamps as they were taken: the stamps do not
\* change when the timeout they are compared against elapses
Stamps(objects) ==
    <<objects[1],
      [objects[2] EXCEPT !.packet =
          [n \in DOMAIN @ |-> [@[n] EXCEPT !.send_time = "fresh"]]],
      [objects[3] EXCEPT !.gap_start_time = IF @ = "expired" THEN "running" ELSE @],
      objects[4]>>

\* C16: once close() has returned, the endpoint stays as that call left it,
\* through and after a second close(): both running flags false, both
\* background threads exited, the socket closed, the pending entries and the
\* buffered frames where they were and nothing more in the delivery queue;
\* and no close() raises.
C16_CloseIdempotent ==
    app["A"].closes >= 1 =>
        /\ ~app["A"].raised
        /\ Stamps(<<api["A"], channel["A"], reorder["A"], timer["A"]>>)
              = Stamps(ghost["A"].closed)
        /\ ~api["A"].running
        /\ ~channel["A"].running
        /\ api["A"].receiver_thread = "exited"
        /\ timer["A"].pc = "exited"
        /\ api["A"].socket = "closed"

\* C16's case: the second close() has returned on an endpoint that had a
\* pending entry and a buffered out-of-order frame when it was closed
C16_Witness ==
    /\ app["A"].closes = 2
    /\ app["A"].pc = "idle"
    /\ channel["A"].pending_packets # <<>>
    /\ DOMAIN reorder["A"].buffer # {}

\* C17: a datagram that is shorter than the header, carries a payload that is
\* no UTF-8, or is an ACK without a parsable number changes neither the
\* pending entries, the duplicate-ACK counts, last_acked_seq, the reorder
\* buffer nor the delivery queue, puts nothing on the socket and leaves the
\* receive worker running.
C17_MalformedDropped ==
    [][ghost["A"].bad' # ghost["A"].bad =>
          /\ channel["A"].pending_packets' = channel["A"].pending_packets
          /\ channel["A"].dup_ack_count' = channel["A"].dup_ack_count
          /\ api["A"].last_acked_seq' = api["A"].last_acked_seq
          /\ reorder["A"]' = reorder["A"]
          /\ api["A"].receive_buffer' = api["A"].receive_buffer
          /\ ghost["A"].ack_tx' = ghost["A"].ack_tx
          /\ ghost["A"].tx' = ghost["A"].tx
          /\ ghost["A"].dlog' = ghost["A"].dlog
          /\ wire' = wire
          /\ api["A"].receiver_thread' = "alive"
          /\ api["A"].running']_vars

\* All three kinds of malformed datagram have arrived at a worker that has a
\* pending entry and a buffered frame
C17_Witness ==
    /\ DOMAIN ghost["A"].bad = DOMAIN Malformed
    /\ channel["A"].pending_packets # <<>>
    /\ DOMAIN reorder["A"].buffer # {}

\* C18: a reliable frame the receiver dropped because its reorder buffer was
\* full, and has not delivered since, is still awaited by its sender: the
\* sender holds a pending entry for it (or is about to register it, or has
\* used up its retransmissions), so it will be retransmitted.
C18_FullDropRetransmitted ==
    \A n \in ghost["B"].full \ DeliveredSeqs("B") :
        \/ InPending(channel["A"], n)
        \/ app["A"].pc = "track" /\ app["A"].seq_no = n
        \/ n \in ghost["A"].failed

\* The send() calls of both threads have returned
ThreadsDone ==
    \A th \in Threads : Thread(th).pc = "idle" /\ Thread(th).script = <<>>

\* The number of frames of channel type ch put on the socket by send()
SentOn(ch) ==
    Cardinality({i \in DOMAIN ghost["A"].sends : ghost["A"].sends[i].channel_type = ch})

\* No two send() calls on the same channel put a frame
\* with the same sequence number on the socket.
DistinctSeq ==
    \A i, j \in DOMAIN ghost["A"].sends :
        /\ i # j
        /\ ghost["A"].sends[i].channel_type = ghost["A"].sends[j].channel_type
        => ghost["A"].sends[i].seq_no # ghost["A"].sends[j].seq_no

\* When all calls have returned, each counter has advanced by
\* the number of calls on its channel.
CounterAdvances ==
    ThreadsDone =>
        /\ api["A"].reliable_seq = SentOn(CHANNEL_RELIABLE)
        /\ api["A"].unreliable_seq = SentOn(CHANNEL_UNRELIABLE)

\* The registration of a reliable call
\* follows its transmit with no transmit or registration of another call in
\* between.
TransmitTrackTogether ==
    \A i \in DOMAIN ghost["A"].slog :
        LET ev == ghost["A"].slog[i]
        IN  ev[1] = "sendto" /\ i < Len(ghost["A"].slog)
            => ghost["A"].slog[i + 1] = <<"track", ev[2], ev[3]>>

\* C19: send() calls made concurrently by several application threads obtain
\* pairwise different sequence numbers on each channel, advance the counter
\* by exactly the number of calls, and keep each call's transmit and pending
\* registration together.
C19_ConcurrentSend ==
    /\ DistinctSeq
    /\ CounterAdvances
    /\ TransmitTrackTogether

\* The retransmissions of A's frames put on the wire: every transmission
\* but the first of each frame
RECURSIVE Retransmissions(_)
Retransmissions(seqs) ==
    IF seqs = {} THEN 0
    ELSE LET n == CHOOSE x \in seqs : TRUE
         IN  ghost["A"].tx[n] - 1 + Retransmissions(seqs \ {n})

\* C20: the pending entries and the channel statistics are only read and
\* written under the channel's mutex, so no update is lost: whenever the
\* timer is between two retransmissions, every entry's retry_count is the
\* number of times its frame was retransmitted, and the statistics
\* retransmitted and total_retries are the number of retransmissions.
C20_NoLostUpdate ==
    timer["A"].pc \in {"scan", "retry"} =>
        /\ \A n \in DOMAIN channel["A"].packet :
               channel["A"].packet[n].retry_count = Count(ghost["A"].tx, n) - 1
        /\ channel["A"].stats.retransmitted = Retransmissions(DOMAIN ghost["A"].tx)
        /\ channel["A"].stats.total_retries = Retransmissions(DOMAIN ghost["A"].tx)

\* C21: once the gap at expected_seq has been open for REORDER_TIMEOUT, the
\* receiver eventually skips it and delivers the buffered frames that follow,
\* also when ACK or unreliable datagrams keep arriving so that the socket
\* read never times out, and no reliable data frame arrives any more.
C21_GapSkippedUnderFlood ==
    (reorder["B"].gap_start_time = "expired")
        ~> (reorder["B"].gap_start_time # "expired")

\* The reliable data frame whose arrival the step handles
ArrivedSeq ==
    CHOOSE n \in DOMAIN ghost["B"].arrivals' :
        Count(ghost["B"].arrivals, n) # ghost["B"].arrivals'[n]

C23_AcksBypass ==
    [][/\ ghost["A"].ack_tx' # ghost["A"].ack_tx =>
              /\ api["A"].reliable_seq' = api["A"].reliable_seq
              /\ api["A"].unreliable_seq' = api["A"].unreliable_seq
              /\ channel["A"].pending_packets' = channel["A"].pending_packets
              /\ channel["A"].packet' = channel["A"].packet
              /\ channel["A"].stats' = channel["A"].stats
       /\ api["A"].metrics.acks_received' # api["A"].metrics.acks_received =>
              /\ reorder["A"]' = reorder["A"]
              /\ api["A"].receive_buffer' = api["A"].receive_buffer
              /\ ghost["A"].dlog' = ghost["A"].dlog]_vars

\* C23's case: A has sent a primary and a duplicate ACK while it had pending
\* entries, and has processed an inbound ACK while it had a buffered frame
C23_Witness ==
    /\ reorder["A"].dup_ack_count >= 1
    /\ channel["A"].pending_packets # <<>>
    /\ api["A"].reliable_seq >= 1
    /\ api["A"].metrics.acks_received >= 1
    /\ DOMAIN reorder["A"].buffer # {}

\* C24: every fast retransmit is made by a pass of the worker that processes
\* a duplicate ACK; with a the number of that ACK and m = (a + 1) mod
\* SEQ_SPACE, m is pending and unacknowledged with retry_count below
\* MAX_RETRANSMITS, the duplicate-ACK count of a has reached
\* DUP_ACK_THRESHOLD with this ACK, and the pass puts one copy of m on the
\* socket, resets the count of a to 0 and increments m's retry_count and the
\* statistics fast_retransmits, retransmitted and total_retries by one each,
\* changing nothing else of the channel but m's send_time.
C24_FastRetransmit ==
    [][channel["A"].stats.fast_retransmits' # channel["A"].stats.fast_retransmits =>
          LET c == channel["A"]
              a == api["A"].last_acked_seq
              m == (a + 1) % SEQ_SPACE
          IN  /\ api["A"].metrics.acks_received' = api["A"].metrics.acks_received + 1
              /\ api["A"].last_acked_seq' = a
              /\ InPending(c, m)
              /\ ~c.packet[m].acked
              /\ c.packet[m].retry_count < MAX_RETRANSMITS
              /\ Count(c.dup_ack_count, a) + 1 >= DUP_ACK_THRESHOLD
              /\ channel["A"]' =
                    [c EXCEPT !.dup_ack_count = Put(@, a, 0),
                              !.packet[m].retry_count = @ + 1,
                              !.packet[m].send_time = "fresh",
                              !.stats.fast_retransmits = @ + 1,
                              !.stats.retransmitted = @ + 1,
                              !.stats.total_retries = @ + 1]
              /\ ghost["A"].tx' = Inc(ghost["A"].tx, m)]_vars

\* C24's case: a frame has been retransmitted by the timer and by a fast
\* retransmit, and duplicate ACKs have been counted anew after the reset
C24_Witness ==
    /\ channel["A"].stats.fast_retransmits >= 1
    /\ channel["A"].stats.retransmitted > channel["A"].stats.fast_retransmits
    /\ \E a \in DOMAIN channel["A"].dup_ack_count : channel["A"].dup_ack_count[a] >= 1

\* C25: in every state of the reorder buffer, check_timeout changes the
\* buffer and returns the frames that the timeout sweep at the start of
\* add_packet would.  With an expired gap that is: expected_seq moves past
\* the missing number and past the buffered frames that follow it without a
\* gap, these frames are returned in order and leave the buffer,
\* skipped_count goes up by one, delivered_count by the number of frames
\* returned, and gap_start_time is cleared; otherwise nothing changes and
\* nothing is returned.
C25_CheckTimeoutIsSweep ==
    LET r == reorder["B"]
        c == check_timeout(r)
        k == Len(c.ready)
        at(i) == (r.expected_seq + i) % SEQ_SPACE
    IN  /\ c = timeout_sweep(r)
        /\ IF r.gap_start_time = "expired"
           THEN /\ c.rb = [r EXCEPT !.expected_seq = at(1 + k),
                                    !.buffer = [x \in DOMAIN r.buffer \ {at(i) : i \in 1 .. k}
                                                   |-> r.buffer[x]],
                                    !.skipped_count = @ + 1,
                                    !.delivered_count = @ + k,
                                    !.gap_start_time = "None"]
                /\ \A i \in 1 .. k : at(i) \in DOMAIN r.buffer /\ c.ready[i] = r.buffer[at(i)]
                /\ at(1 + k) \notin DOMAIN r.buffer
                /\ c.skipped = <<r.expected_seq>>
           ELSE c = [rb |-> r, ready |-> <<>>, skipped |-> <<>>]

\* C25's case: the gap has expired with a frame right behind the missing one
\* and another frame behind a second gap
C25_Witness ==
    LET r == reorder["B"]
    IN  /\ r.gap_start_time = "expired"
        /\ (r.expected_seq + 1) % SEQ_SPACE \in DOMAIN r.buffer
        /\ Cardinality(DOMAIN r.buffer) >= 2
        /\ Len(check_timeout(r).ready) < Cardinality(DOMAIN r.buffer)

\* The frames a sequence of receive() results holds, in order
Frames(results) ==
    LET got == SelectSeq(results, LAMBDA v : v # <<>>)
    IN  [i \in DOMAIN got |-> got[i][1]]

\* C26: the frames the receive() calls have returned so far, followed by the
\* frames still in the delivery queue, are the frames the worker appended, in
\* the order it appended them (so no frame is returned twice, skipped or
\* overtaken, however the calls interleave with the worker's passes), and a
\* call returns the head of the queue and removes it, or returns nothing at
\* once when the queue is empty.
C26_ReceiveInOrder ==
    [][/\ Frames(ghost["B"].returned') \o api["B"].receive_buffer' = ghost["B"].dlog'
       /\ ghost["B"].returned' # ghost["B"].returned =>
              LET q == api["B"].receive_buffer
                  v == ghost["B"].returned'[Len(ghost["B"].returned')]
              IN  /\ ghost["B"].returned' = Append(ghost["B"].returned, v)
                  /\ ghost["B"].dlog' = ghost["B"].dlog
                  /\ IF q = <<>>
                     THEN v = <<>> /\ api["B"].receive_buffer' = <<>>
                     ELSE v = <<Head(q)>> /\ api["B"].receive_buffer' = Tail(q)]_vars

\* C26's case: a call on the empty queue returned nothing, later calls
\* returned a reliable and an unreliable frame, and frames the worker appended
\* in between are still queued
C26_Witness ==
    LET got == ghost["B"].returned
    IN  /\ Len(got) = 3
        /\ got[1] = <<>>
        /\ got[2] # <<>> /\ got[3] # <<>>
        /\ got[2][1].channel_type # got[3][1].channel_type
        /\ Len(api["B"].receive_buffer) >= 2
        /\ reorder["B"].skipped_count >= 1

C28_DupAckBeforeExpected ==
    [][reorder["B"].dup_ack_count' # reorder["B"].dup_ack_count =>
          LET out == ghost["B"].last_out'
          IN  \A i \in 2 .. Len(out) :
                  (from_bytes(out[i]).packet.seq_no + 1) % SEQ_SPACE
                      = reorder["B"].expected_seq']_vars

\* C29: between the calls of add_packet and check_timeout the gap timer is
\* set exactly when frames are waiting in the reorder buffer.
C29_TimerWhileWaiting ==
    (DOMAIN reorder["B"].buffer # {}) <=> (reorder["B"].gap_start_time # "None")

\* C30: once acknowledge has removed the pending entry of a frame, no step
\* of the timer or of the worker puts another copy of that frame on the
\* socket.
C30_NoResendAfterAck ==
    [][\A n \in DOMAIN channel["A"].packet :
          (channel["A"].packet[n].acked /\ ~InPending(channel["A"], n)) =>
              Count(ghost["A"].tx', n) = Count(ghost["A"].tx, n)]_vars

\* C31: a pass of the worker on an ACK frame whose payload number is outside
\* 0 .. SEQ_SPACE - 1, or is not the number in the frame's header, leaves
\* dup_ack_count, the pending set and the rest of the reliable channel as they
\* are and puts nothing on the socket.
C31_ForgedAckIgnored ==
    [][\A data \in ForgedAcks :
          Arrive("A", data) =>
              /\ channel["A"].dup_ack_count' = channel["A"].dup_ack_count
              /\ channel["A"].pending_packets' = channel["A"].pending_packets
              /\ channel["A"].stats' = channel["A"].stats
              /\ ghost["A"].last_out' = <<>>]_vars

====
